---- MODULE Spec2Model ----
(***************************************************************************)
(* Orchestration core of the multi-agent framework                        *)
(* (src/test4/backend/agent_framework.py): the Agent.process envelope,     *)
(* the three execution modes of AgentStrand, the dispatch of               *)
(* MultiAgentSystem.execute_strand, and AgentMemory with the memory a      *)
(* strand gives its agents.                                                *)
(*                                                                         *)
(* Spec and FairSpec run one request on one strand of a family of strands; *)
(* AgentSpec calls process on agents directly; SysSpec makes one request   *)
(* after the other on one system; MemSpec constructs strands over agent    *)
(* objects that store in their memory, and StoreSpec only stores.          *)
(* LogSpec appends log entries and reads the merged logs; RegSpec adds,    *)
(* deletes and executes strands of a registry; MsgSpec sends and receives  *)
(* messages next to a run; ParMemSpec is a parallel run whose agents store *)
(* in shared memory; OverlapSpec makes overlapping calls on one agent.     *)
(* SkipSpec makes graph runs over graphs that name ids of no agent.        *)
(*                                                                         *)
(* Scheduling is asyncio's: one coroutine runs at a time and control is    *)
(* handed over only where a coroutine suspends, which in this code is      *)
(* inside an agent's logic (asyncio.sleep) and in asyncio.gather.  The     *)
(* variable cur names the agent whose process call holds the event loop    *)
(* (0: none).                                                              *)
(*                                                                         *)
(* A payload is modelled by its provenance: the sequence of the agents     *)
(* whose logic produced it, starting from the initial input.  The logic    *)
(* of an agent is opaque; Output tags the input with the agent that        *)
(* processed it, so a result tells which agent made it and from what.      *)
(***************************************************************************)
EXTENDS Integers, Sequences, FiniteSets, TLC

\* Largest strand of the exhaustive family, and most add_communication calls.
MaxAgents == 3
MaxEdges == 3

VARIABLES
    agents,      \* AgentStrand.agents: the ids of the agents, in list order
    graph,       \* AgentStrand.communication_graph: id -> sequence of ids
    mode,        \* the mode string of the execute_strand request
    status,      \* Agent.status, per position in agents
    metrics,     \* Agent.metrics, per position
    log,         \* Agent.execution_log, per position: the levels of the entries
    logTime,     \* Agent.execution_log, per position: their timestamps
    callOwner,   \* the agent object each process call is made on
    callPc,      \* where the process call of each agent stands
    callIn,      \* input_data of the process call of each agent
    callOut,     \* result of the process call of each agent
    callExc,     \* whether the process call of each agent raised
    cur,         \* the agent whose process call holds the event loop, or 0
    runPc,       \* where the strand run stands
    awaiting,    \* the agent whose process call the strand run awaits, or 0
    currentData, \* execute_sequential: current_data
    results,     \* results of the run in progress
    processed,   \* execute_graph: processed
    stack,       \* execute_graph: the frames of process_next, innermost last
    gatherExc,   \* execute_parallel: the agent whose failure gather took, or 0
    ret,         \* what the run gave its caller
    calls,       \* history: every process call made, <<agent, input_data>>
    callStart,   \* Agent.process: start_time of the process call of each agent
    returns,     \* history: every process call that is over, <<agent, raised>>
    clock,       \* time.time()
    registry,    \* MultiAgentSystem.strands: the names, in insertion order
    reqName,     \* the strand name of the execute_strand request
    runs,        \* the execute_strand requests that are over
    failedBefore,\* whether one of them raised
    agentMem,    \* Agent.memory, per agent object: the memory it refers to
    built,       \* the strands constructed: their members and their memory
    shortTerm,   \* AgentMemory.short_term, per memory
    longTerm,    \* AgentMemory.long_term, per memory
    stores,      \* history: every store call made, with its arguments
    pending,     \* AgentMemory.store by each agent: what the call in progress read
    strandOf,    \* MultiAgentSystem.strands: name -> the agents of the strand
    inbox,       \* Agent.inbox, per agent: the messages, oldest first
    ops          \* history: the calls made on the system and on the agents

vars == <<agents, graph, mode, status, metrics, log, logTime, callOwner,
          callPc, callIn, callOut, callExc, cur, runPc, awaiting, currentData,
          results, processed, stack, gatherExc, ret, calls, callStart, returns,
          clock, registry, reqName, runs, failedBefore, agentMem, built,
          shortTerm, longTerm, stores, pending, strandOf, inbox, ops>>

agentVars == <<status, metrics, log, logTime, callPc, callIn, callOut, callExc,
               cur, calls, callStart, returns>>
strandVars == <<agents, graph, mode, callOwner>>
sysVars == <<registry, strandOf, reqName, runs, failedBefore>>
memVars == <<agentMem, built, shortTerm, longTerm, stores, pending>>
msgVars == <<inbox, ops>>
outerVars == <<sysVars, memVars, msgVars, clock>>

----------------------------------------------------------------------------
(* Data *)

AgentStatus == {"idle", "processing", "completed", "error"}

Modes == {"sequential", "parallel", "graph"}

\* A mode string execute_strand does not know.
UnknownMode == "unknown"

\* The name add_strand registered, and a name it did not.
StrandName == "strand"
MissingName == "missing"

\* The input_data of the request.
InitialInput == <<0>>

NumAgents == Len(agents)
Agents == 1..NumAgents

\* What the logic of agent a returns for input_data d.
Output(a, d) == Append(d, a)

\* The agent that produced payload d (0 for the initial input).
Producer(d) == d[Len(d)]

\* The payload that Producer(d) was given.
InputOf(d) == SubSeq(d, 1, Len(d) - 1)

ZeroMetrics == [total_executions |-> 0, successful_executions |-> 0,
                failed_executions |-> 0, total_time |-> 0]

NoResult == [kind |-> "none", msg |-> "", strand |-> FALSE, results |-> <<>>,
             hasFinal |-> FALSE, final |-> <<>>]

\* The exception left the run: the caller gets no record.
Raised == [NoResult EXCEPT !.kind = "raised"]

ErrorValue(m) == [NoResult EXCEPT !.kind = "error", !.msg = m]

ResultRecord(rs) == [NoResult EXCEPT !.kind = "result", !.strand = TRUE,
                                     !.results = rs]

\* Mutant of ResultRecordFinal: the record has no final_output.
ResultRecordNoFinal(rs, f) == ResultRecord(rs)

ResultRecordFinal(rs, f) == [ResultRecord(rs) EXCEPT !.hasFinal = TRUE,
                                                     !.final = f]

----------------------------------------------------------------------------
(* AgentStrand.add_communication and the graphs a strand is given *)

add_communication(g, from, to) ==
    IF from \notin DOMAIN g
    THEN [k \in DOMAIN g \cup {from} |-> IF k = from THEN <<to>> ELSE g[k]]
    ELSE [g EXCEPT ![from] = Append(g[from], to)]

EmptyGraph == [k \in {} |-> <<>>]

\* The graph after the add_communication calls of es, in order.
RECURSIVE BuildGraph(_)
BuildGraph(es) ==
    IF es = <<>> THEN EmptyGraph
    ELSE LET g == BuildGraph(SubSeq(es, 1, Len(es) - 1))
             e == es[Len(es)]
         IN  add_communication(g, e[1], e[2])

\* generate_system: the chain agents[i] -> agents[i+1].
ChainEdges(n) == [i \in 1..(IF n > 0 THEN n - 1 ELSE 0) |-> <<i, i + 1>>]

\* The scenario A -> [B, C], B -> [D], C -> [D] with A, B, C, D = 1, 2, 3, 4.
DiamondEdges == << <<1, 2>>, <<1, 3>>, <<2, 4>>, <<3, 4>> >>
DiamondGraph == BuildGraph(DiamondEdges)

\* The add_communication calls a strand of n agents is given: at most MaxEdges
\* edges from the ids of its agents to the ids 1..MaxAgents (an id above n
\* matches no agent).  process_next reads the graph at the ids of the agents
\* it has processed only: an edge from any other id is never read.
EdgeSeqs(n) ==
    UNION {[1..k -> (1..n) \X (1..MaxAgents)] : k \in 0..MaxEdges}

----------------------------------------------------------------------------
(* Agent *)

\* Agent.__init__, and AgentStrand.__init__ over n agents with ids 1..n; the
\* request that is made names mode m.
InitStrand(m, n, g) ==
    /\ mode = m
    /\ agents = [i \in 1..n |-> i]
    /\ graph = g
    /\ status = [a \in 1..n |-> "idle"]
    /\ metrics = [a \in 1..n |-> ZeroMetrics]
    /\ log = [a \in 1..n |-> <<>>]
    /\ logTime = [a \in 1..n |-> <<>>]
    /\ inbox = [a \in 1..n |-> <<>>]
    /\ callPc = [a \in 1..n |-> "none"]
    /\ callIn = [a \in 1..n |-> <<>>]
    /\ callOut = [a \in 1..n |-> <<>>]
    /\ callExc = [a \in 1..n |-> FALSE]
    /\ callStart = [a \in 1..n |-> 0]
    /\ cur = 0
    /\ awaiting = 0
    /\ currentData = <<>>
    /\ results = <<>>
    /\ processed = {}
    /\ stack = <<>>
    /\ gatherExc = 0
    /\ ret = NoResult
    /\ calls = <<>>
    /\ returns = <<>>

\* Every process call is made on the agent of its own position.
OwnCalls == callOwner = [c \in DOMAIN agents |-> c]

\* MultiAgentSystem.__init__ and add_strand: the one strand is registered and
\* the request names nm.
InitSystem(nm) ==
    /\ registry = <<StrandName>>
    /\ strandOf = [x \in {StrandName} |-> agents]
    /\ ops = <<>>
    /\ reqName = nm
    /\ runs = 0
    /\ failedBefore = FALSE

\* No memory is observed: the memories are the subject of MemSpec.
InitNoMemory ==
    /\ agentMem = <<>>
    /\ built = <<>>
    /\ shortTerm = <<>>
    /\ longTerm = <<>>
    /\ stores = <<>>
    /\ pending = <<>>

\* The strands the model runs.  Graph mode gets every graph EdgeSeqs builds
\* and the diamond; the modes that never read the graph get the chain
\* generate_system builds.
InitFamily ==
    \/ \E n \in 0..MaxAgents :
           \E es \in EdgeSeqs(n) : InitStrand("graph", n, BuildGraph(es))
    \/ InitStrand("graph", 4, DiamondGraph)
    \/ \E m \in {"sequential", "parallel", UnknownMode}, n \in 0..MaxAgents :
           InitStrand(m, n, BuildGraph(ChainEdges(n)))

\* One strand of the family, registered, and one request for it.
Init ==
    /\ InitFamily
    /\ runPc = "idle"
    /\ OwnCalls
    /\ InitSystem(StrandName)
    /\ InitNoMemory
    /\ clock = 0

\* Agent.log of agent a: one entry of the given level, with time.time() as its
\* timestamp, is appended.
LogAppend(a, level) ==
    /\ log' = [log EXCEPT ![a] = Append(@, level)]
    /\ logTime' = [logTime EXCEPT ![a] = Append(@, clock)]

\* Agent.process, entry: status = PROCESSING and the logic is entered with d.
ProcessEnter(a, d) ==
    /\ status' = [status EXCEPT ![callOwner[a]] = "processing"]
    /\ callPc' = [callPc EXCEPT ![a] = "logic"]
    /\ callIn' = [callIn EXCEPT ![a] = d]
    /\ callOut' = [callOut EXCEPT ![a] = <<>>]
    /\ callExc' = [callExc EXCEPT ![a] = FALSE]
    /\ calls' = Append(calls, <<a, d>>)
    /\ callStart' = [callStart EXCEPT ![a] = clock]
    /\ cur' = a
    /\ UNCHANGED <<metrics, log, logTime, returns>>

\* Agent._execute_logic suspends (await asyncio.sleep) and frees the loop.
LogicSuspend(a) ==
    /\ cur = a
    /\ callPc[a] = "logic"
    /\ callPc' = [callPc EXCEPT ![a] = "suspended"]
    /\ cur' = 0
    /\ UNCHANGED <<status, metrics, log, logTime, callIn, callOut, callExc, calls,
                   callStart, returns>>
    /\ UNCHANGED <<strandVars, outerVars, runPc, awaiting, currentData, results,
                   processed, stack, gatherExc, ret>>

\* The tasks gather made are started, in list order, before anything that was
\* suspended is woken: the loop runs its callbacks in the order they were queued.
NoneReady == \A b \in Agents : callPc[b] # "ready"

\* The sleep is over and the loop resumes the logic.
LogicResume(a) ==
    /\ cur = 0
    /\ NoneReady
    /\ callPc[a] = "suspended"
    /\ callPc' = [callPc EXCEPT ![a] = "resumed"]
    /\ cur' = a
    /\ UNCHANGED <<status, metrics, log, logTime, callIn, callOut, callExc, calls,
                   callStart, returns>>
    /\ UNCHANGED <<strandVars, outerVars, runPc, awaiting, currentData, results,
                   processed, stack, gatherExc, ret>>

\* execution_time = time.time() - start_time
ExecutionTime(a) == clock - callStart[a]

\* Agent.process, the rest of the try block once the logic has returned.
ProcessSucceed(a) ==
    /\ cur = a
    /\ callPc[a] \in {"logic", "resumed"}
    /\ status' = [status EXCEPT ![callOwner[a]] = "completed"]
    /\ metrics' = [metrics EXCEPT ![callOwner[a]].successful_executions = @ + 1,
                                  ![callOwner[a]].total_time = @ + ExecutionTime(a)]
    /\ LogAppend(callOwner[a], "info")
    /\ callOut' = [callOut EXCEPT ![a] = Output(a, callIn[a])]
    /\ callPc' = [callPc EXCEPT ![a] = "finally"]
    /\ UNCHANGED <<callIn, callExc, cur, calls, callStart, returns>>
    /\ UNCHANGED <<strandVars, outerVars, runPc, awaiting, currentData, results,
                   processed, stack, gatherExc, ret>>

\* Mutant of ProcessFail: the except block swallows the exception, and the
\* call returns to its caller as one that did not raise.
ProcessFailSuppressed(a) ==
    /\ cur = a
    /\ callPc[a] \in {"logic", "resumed"}
    /\ status' = [status EXCEPT ![callOwner[a]] = "error"]
    /\ metrics' = [metrics EXCEPT ![callOwner[a]].failed_executions = @ + 1]
    /\ LogAppend(callOwner[a], "error")
    /\ callPc' = [callPc EXCEPT ![a] = "finally"]
    /\ UNCHANGED <<callIn, callOut, callExc, cur, calls, callStart, returns>>
    /\ UNCHANGED <<strandVars, outerVars, runPc, awaiting, currentData, results,
                   processed, stack, gatherExc, ret>>

\* Agent.process, the except block: the logic raised.
ProcessFail(a) ==
    /\ cur = a
    /\ callPc[a] \in {"logic", "resumed"}
    /\ status' = [status EXCEPT ![callOwner[a]] = "error"]
    /\ metrics' = [metrics EXCEPT ![callOwner[a]].failed_executions = @ + 1]
    /\ LogAppend(callOwner[a], "error")
    /\ callExc' = [callExc EXCEPT ![a] = TRUE]
    /\ callPc' = [callPc EXCEPT ![a] = "finally"]
    /\ UNCHANGED <<callIn, callOut, cur, calls, callStart, returns>>
    /\ UNCHANGED <<strandVars, outerVars, runPc, awaiting, currentData, results,
                   processed, stack, gatherExc, ret>>

\* Mutant: the reset sits at the end of the try block, not in a finally.
FinallyStatusOnSuccess(a) ==
    IF callExc[a] THEN status[callOwner[a]] ELSE "idle"

\* The status the finally block leaves.
FinallyStatus(a) == "idle"

\* Mutant: the count of executions sits at the end of the try block.
FinallyTotalOnSuccess(a) ==
    IF callExc[a] THEN metrics[callOwner[a]].total_executions
    ELSE metrics[callOwner[a]].total_executions + 1

\* The finally block: self.metrics["total_executions"] += 1
FinallyTotal(a) == metrics[callOwner[a]].total_executions + 1

\* asyncio.gather without return_exceptions: the first exception of a task
\* is the one handed to the awaiting run.
GatherTake(a) ==
    IF mode = "parallel" /\ callExc[a] /\ gatherExc = 0 THEN a ELSE gatherExc

\* Agent.process, the finally block, after which the call is over.
ProcessFinally(a) ==
    /\ cur = a
    /\ callPc[a] = "finally"
    /\ metrics' = [metrics EXCEPT ![callOwner[a]].total_executions = FinallyTotal(a)]
    /\ status' = [status EXCEPT ![callOwner[a]] = FinallyStatus(a)]
    /\ callPc' = [callPc EXCEPT ![a] = "done"]
    /\ cur' = 0
    /\ gatherExc' = GatherTake(a)
    /\ returns' = Append(returns, <<a, callExc[a]>>)
    /\ UNCHANGED <<log, logTime, callIn, callOut, callExc, calls, callStart>>
    /\ UNCHANGED <<strandVars, outerVars, runPc, awaiting, currentData, results,
                   processed, stack, ret>>

----------------------------------------------------------------------------
(* MultiAgentSystem.execute_strand and AgentStrand.execute_sequential *)

\* The set of the elements of a sequence.
Range(q) == {q[i] : i \in 1..Len(q)}

\* Mutant of Found: every name is taken as registered.
FoundAlways == TRUE

\* Mutant of Found: a run that raised took its strand out of the registry.
FoundUnlessFailed == reqName \in Range(registry) /\ ~failedBefore

\* execute_strand: strand_name in self.strands.
Found == reqName \in Range(registry)

\* execute_strand with a name that is not registered: the error value is
\* returned before the mode is looked at.
ExecuteNotFound ==
    /\ runPc = "idle"
    /\ ~Found
    /\ runPc' = "returned"
    /\ ret' = ErrorValue("not found")
    /\ UNCHANGED <<strandVars, outerVars, agentVars, awaiting, currentData, results,
                   processed, stack, gatherExc>>

\* Mutant of ExecuteUnknownMode: a mode that is not known raises.
ExecuteUnknownModeRaises ==
    /\ runPc = "idle"
    /\ Found
    /\ mode \notin Modes
    /\ runPc' = "raised"
    /\ ret' = Raised
    /\ UNCHANGED <<strandVars, outerVars, agentVars, awaiting, currentData, results,
                   processed, stack, gatherExc>>

\* execute_strand with a mode string that is none of the three.
ExecuteUnknownMode ==
    /\ runPc = "idle"
    /\ Found
    /\ mode \notin Modes
    /\ runPc' = "returned"
    /\ ret' = ErrorValue("unknown mode")
    /\ UNCHANGED <<strandVars, outerVars, agentVars, awaiting, currentData, results,
                   processed, stack, gatherExc>>

\* execute_sequential, up to the loop.
SeqStart ==
    /\ runPc = "idle"
    /\ Found
    /\ mode = "sequential"
    /\ runPc' = "seq"
    /\ currentData' = InitialInput
    /\ results' = <<>>
    /\ UNCHANGED <<strandVars, outerVars, agentVars, awaiting, processed, stack,
                   gatherExc, ret>>

\* Mutant of SeqInvoke: the loop does not await the call it made, and calls
\* the next agent while that one is suspended.
SeqInvokeEager ==
    /\ runPc = "seq"
    /\ cur = 0
    /\ IF awaiting = 0 THEN TRUE ELSE callPc[awaiting] = "suspended"
    /\ Len(calls) < NumAgents
    /\ LET a == Len(calls) + 1
       IN  /\ ProcessEnter(a, currentData)
           /\ awaiting' = a
    /\ UNCHANGED <<strandVars, outerVars, runPc, currentData, results, processed, stack,
                   gatherExc, ret>>

\* The loop takes the next agent: await agent.process(current_data).
SeqInvoke ==
    /\ runPc = "seq"
    /\ awaiting = 0
    /\ Len(results) < NumAgents
    /\ LET a == Len(results) + 1
       IN  /\ ProcessEnter(a, currentData)
           /\ awaiting' = a
    /\ UNCHANGED <<strandVars, outerVars, runPc, currentData, results, processed, stack,
                   gatherExc, ret>>

\* Mutant: current_data is never replaced by the result.
SeqNextDataStale(r) == currentData

\* What the loop hands the next agent after result r.
SeqNextData(r) == r

\* The call returned: results.append(result); current_data = result.
SeqCollect ==
    /\ runPc = "seq"
    /\ awaiting # 0
    /\ cur = 0
    /\ callPc[awaiting] = "done"
    /\ ~callExc[awaiting]
    /\ results' = Append(results, callOut[awaiting])
    /\ currentData' = SeqNextData(callOut[awaiting])
    /\ awaiting' = 0
    /\ UNCHANGED <<strandVars, outerVars, agentVars, runPc, processed, stack, gatherExc,
                   ret>>

\* Mutant: the loop catches the exception and goes on with the next agent.
SeqRaiseSwallowed ==
    /\ runPc = "seq"
    /\ awaiting # 0
    /\ cur = 0
    /\ callPc[awaiting] = "done"
    /\ callExc[awaiting]
    /\ results' = Append(results, callOut[awaiting])
    /\ awaiting' = 0
    /\ UNCHANGED <<strandVars, outerVars, agentVars, runPc, currentData, processed,
                   stack, gatherExc, ret>>

\* The call raised: the exception leaves execute_sequential.
SeqRaise ==
    /\ runPc = "seq"
    /\ awaiting # 0
    /\ cur = 0
    /\ callPc[awaiting] = "done"
    /\ callExc[awaiting]
    /\ runPc' = "raised"
    /\ ret' = Raised
    /\ awaiting' = 0
    /\ UNCHANGED <<strandVars, outerVars, agentVars, currentData, results, processed,
                   stack, gatherExc>>

\* Mutant of SeqReturn: final_output is the input the run was given.
SeqReturnInitial ==
    /\ runPc = "seq"
    /\ awaiting = 0
    /\ Len(results) = NumAgents
    /\ runPc' = "returned"
    /\ ret' = ResultRecordFinal(results, InitialInput)
    /\ UNCHANGED <<strandVars, outerVars, agentVars, awaiting, currentData, results,
                   processed, stack, gatherExc>>

\* The loop is over: the record is returned.
SeqReturn ==
    /\ runPc = "seq"
    /\ awaiting = 0
    /\ Len(results) = NumAgents
    /\ runPc' = "returned"
    /\ ret' = ResultRecordFinal(results, currentData)
    /\ UNCHANGED <<strandVars, outerVars, agentVars, awaiting, currentData, results,
                   processed, stack, gatherExc>>

----------------------------------------------------------------------------
(* AgentStrand.execute_parallel *)

\* Mutant: the tasks are chained like the agents of a sequential run.
TaskInputChained(a) ==
    IF a = 1 THEN InitialInput ELSE Output(a - 1, InitialInput)

\* The input_data of the coroutine agent.process(...) made for agent a.
TaskInput(a) == InitialInput

\* execute_parallel up to the await: a coroutine per agent, all handed to
\* asyncio.gather, which makes a task of each.
ParStart ==
    /\ runPc = "idle"
    /\ Found
    /\ mode = "parallel"
    /\ runPc' = "gather"
    /\ callPc' = [a \in Agents |-> "ready"]
    /\ callIn' = [a \in Agents |-> TaskInput(a)]
    /\ UNCHANGED <<strandVars, outerVars, status, metrics, log, logTime, callOut, callExc, cur,
                   calls, callStart, returns, awaiting, currentData, results,
                   processed, stack,
                   gatherExc, ret>>

\* The loop starts the task of agent a: the first step of its process call.
TaskStart(a) ==
    /\ cur = 0
    /\ callPc[a] = "ready"
    /\ \A b \in Agents : b < a => callPc[b] # "ready"
    /\ ProcessEnter(a, callIn[a])
    /\ UNCHANGED <<strandVars, outerVars, runPc, awaiting, currentData, results,
                   processed, stack, gatherExc, ret>>

\* Mutant: the run is woken by the first task that is done.
GatherReadyFirst == \E a \in Agents : callPc[a] = "done"

\* gather has a result for the awaiting run: every task is done.
GatherReady == \A a \in Agents : callPc[a] = "done"

\* Mutant: the tasks still in flight are cancelled.
GatherCancel(pcs) ==
    [a \in DOMAIN pcs |-> IF pcs[a] = "suspended" THEN "cancelled" ELSE pcs[a]]

\* The tasks the run leaves behind when an exception reaches it.
GatherAbandon(pcs) == pcs

\* Mutant of GatherReturn: the results come in the order in which the tasks
\* ended.
GatherReturnAsDone ==
    /\ runPc = "gather"
    /\ cur = 0
    /\ NoneReady
    /\ gatherExc = 0
    /\ GatherReady
    /\ runPc' = "returned"
    /\ results' = [i \in 1..Len(returns) |-> callOut[returns[i][1]]]
    /\ ret' = ResultRecord([i \in 1..Len(returns) |-> callOut[returns[i][1]]])
    /\ UNCHANGED <<strandVars, outerVars, agentVars, awaiting, currentData, processed,
                   stack, gatherExc>>

\* gather hands the run the results of the tasks, in the order of the tasks.
GatherReturn ==
    /\ runPc = "gather"
    /\ cur = 0
    /\ NoneReady
    /\ gatherExc = 0
    /\ GatherReady
    /\ runPc' = "returned"
    /\ results' = [a \in Agents |-> callOut[a]]
    /\ ret' = ResultRecord([a \in Agents |-> callOut[a]])
    /\ UNCHANGED <<strandVars, outerVars, agentVars, awaiting, currentData, processed,
                   stack, gatherExc>>

\* gather hands the run the first exception; the other tasks are left alone.
GatherRaise ==
    /\ runPc = "gather"
    /\ cur = 0
    /\ NoneReady
    /\ gatherExc # 0
    /\ runPc' = "raised"
    /\ ret' = Raised
    /\ callPc' = GatherAbandon(callPc)
    /\ UNCHANGED <<strandVars, outerVars, status, metrics, log, logTime, callIn, callOut, callExc,
                   cur, calls, callStart, returns, awaiting, currentData,
                   results, processed,
                   stack, gatherExc>>

----------------------------------------------------------------------------
(* AgentStrand.execute_graph *)

\* next((a for a in self.agents if a.id == id), None): the position of the
\* first agent with that id, 0 for None.
AgentById(id) ==
    IF \E a \in Agents : agents[a] = id
    THEN CHOOSE a \in Agents :
            /\ agents[a] = id
            /\ \A b \in Agents : agents[b] = id => a <= b
    ELSE 0

\* A call of process_next(agent_id, data), about to look at edge idx.
Frame(id, d) == [agent |-> id, data |-> d, idx |-> 1]

Top == stack[Len(stack)]

\* The successor id the innermost process_next looks at.
NextAgentId == graph[Top.agent][Top.idx]

\* The innermost process_next is inside its for loop.
InLoop ==
    /\ runPc = "graph"
    /\ awaiting = 0
    /\ cur = 0
    /\ stack # <<>>
    /\ Top.agent \in DOMAIN graph
    /\ Top.idx <= Len(graph[Top.agent])

\* The loop of the innermost frame moves on to its next edge.
Advance(st) == [st EXCEPT ![Len(st)].idx = @ + 1]

\* Mutant: the successor is explored after the siblings (breadth first).
PushFrameLast(st, f) == <<f>> \o st

\* The recursive call process_next(next_agent_id, result).
PushFrame(st, f) == Append(st, f)

\* Mutant: the entry agent is not marked.
InitialProcessedEmpty == {}

\* processed = {first_agent.id}
InitialProcessed == {agents[1]}

\* Mutant: the visited set is never added to.
MarkProcessedDropped(p, id) == p

\* processed.add(next_agent_id)
MarkProcessed(p, id) == p \cup {id}

\* if not self.agents: return {"error": ...}
GraphEmpty ==
    /\ runPc = "idle"
    /\ Found
    /\ mode = "graph"
    /\ NumAgents = 0
    /\ runPc' = "returned"
    /\ ret' = ErrorValue("No agents in strand")
    /\ UNCHANGED <<strandVars, outerVars, agentVars, awaiting, currentData, results,
                   processed, stack, gatherExc>>

\* result = await first_agent.process(initial_input)
GraphStart ==
    /\ runPc = "idle"
    /\ Found
    /\ mode = "graph"
    /\ NumAgents > 0
    /\ ProcessEnter(1, InitialInput)
    /\ awaiting' = 1
    /\ runPc' = "graph_first"
    /\ UNCHANGED <<strandVars, outerVars, currentData, results, processed, stack,
                   gatherExc, ret>>

\* The first agent returned: processed, results, and the outermost
\* process_next(first_agent.id, result) is called.
GraphFirstDone ==
    /\ runPc = "graph_first"
    /\ cur = 0
    /\ callPc[awaiting] = "done"
    /\ ~callExc[awaiting]
    /\ processed' = InitialProcessed
    /\ results' = <<callOut[awaiting]>>
    /\ stack' = <<Frame(agents[1], callOut[awaiting])>>
    /\ awaiting' = 0
    /\ runPc' = "graph"
    /\ UNCHANGED <<strandVars, outerVars, agentVars, currentData, gatherExc, ret>>

\* if agent_id not in self.communication_graph: return
GraphNoEdges ==
    /\ runPc = "graph"
    /\ awaiting = 0
    /\ cur = 0
    /\ stack # <<>>
    /\ Top.agent \notin DOMAIN graph
    /\ stack' = SubSeq(stack, 1, Len(stack) - 1)
    /\ UNCHANGED <<strandVars, outerVars, agentVars, runPc, awaiting, currentData,
                   results, processed, gatherExc, ret>>

\* The for loop of the innermost process_next is over: it returns.
GraphLoopEnd ==
    /\ runPc = "graph"
    /\ awaiting = 0
    /\ cur = 0
    /\ stack # <<>>
    /\ Top.agent \in DOMAIN graph
    /\ Top.idx > Len(graph[Top.agent])
    /\ stack' = SubSeq(stack, 1, Len(stack) - 1)
    /\ UNCHANGED <<strandVars, outerVars, agentVars, runPc, awaiting, currentData,
                   results, processed, gatherExc, ret>>

\* if next_agent_id in processed: continue
GraphSkipProcessed ==
    /\ InLoop
    /\ NextAgentId \in processed
    /\ stack' = Advance(stack)
    /\ UNCHANGED <<strandVars, outerVars, agentVars, runPc, awaiting, currentData,
                   results, processed, gatherExc, ret>>

\* Mutant of GraphSkipMissing: the edges of an id that matches no agent are
\* followed, with the data as it is.
GraphSkipMissingFollows ==
    /\ InLoop
    /\ NextAgentId \notin processed
    /\ AgentById(NextAgentId) = 0
    /\ stack' = PushFrame(Advance(stack), Frame(NextAgentId, Top.data))
    /\ processed' = MarkProcessed(processed, NextAgentId)
    /\ UNCHANGED <<strandVars, outerVars, agentVars, runPc, awaiting, currentData,
                   results, gatherExc, ret>>

\* next_agent is None: the body of the loop does nothing.
GraphSkipMissing ==
    /\ InLoop
    /\ NextAgentId \notin processed
    /\ AgentById(NextAgentId) = 0
    /\ stack' = Advance(stack)
    /\ UNCHANGED <<strandVars, outerVars, agentVars, runPc, awaiting, currentData,
                   results, processed, gatherExc, ret>>

\* Mutant of GraphInvoke: the successor is given the initial input.
GraphInvokeInitial ==
    /\ InLoop
    /\ NextAgentId \notin processed
    /\ AgentById(NextAgentId) # 0
    /\ ProcessEnter(AgentById(NextAgentId), InitialInput)
    /\ awaiting' = AgentById(NextAgentId)
    /\ UNCHANGED <<strandVars, outerVars, runPc, currentData, results, processed, stack,
                   gatherExc, ret>>

\* result = await next_agent.process(data)
GraphInvoke ==
    /\ InLoop
    /\ NextAgentId \notin processed
    /\ AgentById(NextAgentId) # 0
    /\ ProcessEnter(AgentById(NextAgentId), Top.data)
    /\ awaiting' = AgentById(NextAgentId)
    /\ UNCHANGED <<strandVars, outerVars, runPc, currentData, results, processed, stack,
                   gatherExc, ret>>

\* The successor returned: results.append(result), processed.add(id) and
\* the recursive call await process_next(next_agent_id, result).
GraphCollect ==
    /\ runPc = "graph"
    /\ awaiting # 0
    /\ cur = 0
    /\ callPc[awaiting] = "done"
    /\ ~callExc[awaiting]
    /\ results' = Append(results, callOut[awaiting])
    /\ processed' = MarkProcessed(processed, NextAgentId)
    /\ stack' = PushFrame(Advance(stack), Frame(NextAgentId, callOut[awaiting]))
    /\ awaiting' = 0
    /\ UNCHANGED <<strandVars, outerVars, agentVars, runPc, currentData, gatherExc, ret>>

\* Mutant: the failure ends the branch only; the loop goes on with the siblings.
GraphRaiseBranchOnly ==
    /\ runPc = "graph"
    /\ awaiting # 0
    /\ cur = 0
    /\ callPc[awaiting] = "done"
    /\ callExc[awaiting]
    /\ stack' = Advance(stack)
    /\ awaiting' = 0
    /\ UNCHANGED <<strandVars, outerVars, agentVars, runPc, currentData, results,
                   processed, gatherExc, ret>>

\* A process call raised: the exception leaves every process_next on the
\* stack and execute_graph itself.
GraphRaise ==
    /\ runPc \in {"graph_first", "graph"}
    /\ awaiting # 0
    /\ cur = 0
    /\ callPc[awaiting] = "done"
    /\ callExc[awaiting]
    /\ runPc' = "raised"
    /\ ret' = Raised
    /\ awaiting' = 0
    /\ UNCHANGED <<strandVars, outerVars, agentVars, currentData, results, processed,
                   stack, gatherExc>>

\* The outermost process_next returned: the record is returned.
GraphReturn ==
    /\ runPc = "graph"
    /\ awaiting = 0
    /\ cur = 0
    /\ stack = <<>>
    /\ runPc' = "returned"
    /\ ret' = ResultRecord(results)
    /\ UNCHANGED <<strandVars, outerVars, agentVars, awaiting, currentData, results,
                   processed, stack, gatherExc>>

----------------------------------------------------------------------------

Next ==
    \/ ExecuteUnknownMode
    \/ SeqStart
    \/ SeqInvoke
    \/ SeqCollect
    \/ SeqRaise
    \/ SeqReturn
    \/ ParStart
    \/ \E a \in Agents : TaskStart(a)
    \/ GatherReturn
    \/ GatherRaise
    \/ GraphEmpty
    \/ GraphStart
    \/ GraphFirstDone
    \/ GraphNoEdges
    \/ GraphLoopEnd
    \/ GraphSkipProcessed
    \/ GraphSkipMissing
    \/ GraphInvoke
    \/ GraphCollect
    \/ GraphRaise
    \/ GraphReturn
    \/ \E a \in Agents : LogicSuspend(a)
    \/ \E a \in Agents : LogicResume(a)
    \/ \E a \in Agents : ProcessSucceed(a)
    \/ \E a \in Agents : ProcessFail(a)
    \/ \E a \in Agents : ProcessFinally(a)

Spec == Init /\ [][Next]_vars

\* The event loop runs every callback that is ready, every sleep ends and
\* the logic of every agent terminates: a step that can be taken is taken.
FairSpec == Spec /\ WF_vars(Next)

----------------------------------------------------------------------------
(* Properties *)

RunOver == runPc \in {"returned", "raised"}

\* The agents of the process calls made so far, in the order of the calls.
Called == [i \in 1..Len(calls) |-> calls[i][1]]

\* The agents that produced the payloads of rs, in order.
Producers(rs) == [i \in 1..Len(rs) |-> Producer(rs[i])]

NoRepeat(q) == \A i, j \in 1..Len(q) : i # j => q[i] # q[j]

\* One step of the status of agent a, and of its process call.
StatusStep(a) ==
    /\ status'[a] # status[a] =>
        \/ /\ status[a] = "idle" /\ status'[a] = "processing"
           /\ callPc'[a] = "logic"
        \/ /\ status[a] = "processing" /\ status'[a] = "completed"
           /\ callPc'[a] = "finally" /\ ~callExc'[a]
        \/ /\ status[a] = "processing" /\ status'[a] = "error"
           /\ callPc'[a] = "finally" /\ callExc'[a]
        \/ /\ status[a] \in {"completed", "error"} /\ status'[a] = "idle"
           /\ callPc'[a] = "done"
    /\ (callPc[a] # "logic" /\ callPc'[a] = "logic") =>
            status[a] = "idle" /\ status'[a] = "processing"
    /\ (callPc[a] # "finally" /\ callPc'[a] = "finally") =>
            /\ status[a] = "processing"
            /\ status'[a] = IF callExc'[a] THEN "error" ELSE "completed"
    /\ (callPc[a] # "done" /\ callPc'[a] = "done") => status'[a] = "idle"

\* C1: a process call on an idle agent takes the status idle -> processing on
\* entry, then -> completed when the logic succeeds or -> error when it
\* fails, and the status is idle again when the call is over, on both paths.
C1_StatusCycle ==
    /\ [][\A a \in Agents : StatusStep(a)]_vars
    /\ [](\A a \in Agents : callPc[a] \in {"none", "ready", "done"}
                                => status[a] = "idle")

C1_Witness ==
    \E a, b \in Agents :
        /\ callPc[a] = "done" /\ callExc[a] /\ status[a] = "idle"
        /\ callPc[b] = "done" /\ ~callExc[b] /\ status[b] = "idle"

\* C2: in a sequential run without failure every agent is invoked exactly
\* once, in list order, the first with the initial input and agent i with the
\* output of agent i-1, and results has the N outputs in list order.
C2_SequentialChain ==
    mode = "sequential" =>
        /\ \A i \in 1..Len(calls) :
              /\ calls[i][1] = i
              /\ calls[i][2] = IF i = 1 THEN InitialInput ELSE callOut[i - 1]
        /\ \A i \in 1..Len(results) : results[i] = Output(i, calls[i][2])
        /\ runPc = "returned" =>
              /\ Len(calls) = NumAgents
              /\ ret.kind = "result"
              /\ ret.results = results
              /\ Len(ret.results) = NumAgents

C2_Witness ==
    /\ mode = "sequential"
    /\ runPc = "returned"
    /\ NumAgents >= 2
    /\ Len(ret.results) = NumAgents

\* C3: when the agent at position k fails in a sequential run, the run fails
\* to its caller at once with no result record, and no agent after k is
\* invoked: its status, metrics and log stay as they were.
C3_SequentialFailure ==
    mode = "sequential" =>
        \A k \in Agents : callExc[k] =>
            /\ \A j \in Agents : j > k =>
                  /\ callPc[j] = "none"
                  /\ status[j] = "idle"
                  /\ metrics[j] = ZeroMetrics
                  /\ log[j] = <<>>
                  /\ j \notin Range(Called)
            /\ ret \in {NoResult, Raised}
            /\ callPc[k] = "done" => (runPc = "raised" \/ awaiting = k)
            /\ RunOver => ret = Raised

C3_Witness ==
    /\ mode = "sequential"
    /\ runPc = "raised"
    /\ \E k \in Agents : callExc[k] /\ k > 1 /\ k < NumAgents

\* C4: in a parallel run every agent is invoked with the initial input, never
\* with the output of another agent, and without failure results has exactly
\* N entries.
C4_ParallelSameInput ==
    mode = "parallel" =>
        /\ \A i \in 1..Len(calls) : calls[i][2] = InitialInput
        /\ runPc = "returned" =>
              /\ ret.kind = "result"
              /\ Len(ret.results) = NumAgents
              /\ NoRepeat(Called)
              /\ Range(Called) = Agents

C4_Witness ==
    /\ mode = "parallel"
    /\ runPc = "returned"
    /\ NumAgents >= 2
    /\ Len(calls) = NumAgents
    /\ ret.kind = "result"

\* C5: a parallel run is over only when every process call is over or one
\* has failed; a run that returns a result does so after the process call of
\* every agent has returned, whatever the interleaving.
C5_ParallelBarrier ==
    mode = "parallel" =>
        /\ runPc = "returned" =>
              \A a \in Agents : callPc[a] = "done" /\ ~callExc[a]
        /\ RunOver =>
              \/ \A a \in Agents : callPc[a] = "done"
              \/ \E a \in Agents : callPc[a] = "done" /\ callExc[a]

C5_Witness ==
    /\ mode = "parallel"
    /\ runPc = "returned"
    /\ NumAgents >= 2
    /\ \A a \in Agents : callPc[a] = "done" /\ status[a] = "idle"

\* C6: when an agent fails in a parallel run, the run fails to its caller
\* with no results once the failure is observed, and the other agents are
\* not cancelled: each still runs to its own end, and its metrics and log
\* record that execution.
C6_ParallelFailure ==
    /\ [](mode = "parallel" =>
            /\ gatherExc # 0 => ret \in {NoResult, Raised}
            /\ (gatherExc # 0 /\ RunOver) => ret = Raised)
    /\ [][(mode = "parallel" /\ runPc = "gather" /\ runPc' = "raised") =>
            /\ callPc' = callPc
            /\ status' = status
            /\ metrics' = metrics]_vars
    /\ (mode = "parallel" /\ runPc = "raised")
          ~> \A a \in Agents :
                /\ callPc[a] = "done"
                /\ status[a] = "idle"
                /\ metrics[a].total_executions = 1
                /\ metrics[a].successful_executions +
                       metrics[a].failed_executions = 1
                /\ Len(log[a]) = 1

C6_Witness ==
    /\ mode = "parallel"
    /\ runPc = "raised"
    /\ ret = Raised
    /\ \E b \in Agents : callPc[b] = "suspended" /\ status[b] = "processing"

\* C7: in a graph run over a non-empty strand, whatever the graph (joins,
\* cycles, self-loops, duplicate edges), every agent id is invoked at most
\* once and is in results at most once, and the output of agents[0] is the
\* first element of results.
C7_GraphVisitOnce ==
    mode = "graph" =>
        /\ NoRepeat([i \in 1..Len(calls) |-> agents[calls[i][1]]])
        /\ NoRepeat([i \in 1..Len(results) |-> agents[Producer(results[i])]])
        /\ results # <<>> => results[1] = Output(1, InitialInput)
        /\ (runPc = "returned" /\ NumAgents > 0) =>
              /\ ret.kind = "result"
              /\ ret.results = results
              /\ ret.results # <<>>
              /\ ret.results[1] = Output(1, InitialInput)

\* A self-loop on the entry and a duplicate edge, both met in the run.
C7_Witness ==
    /\ mode = "graph"
    /\ runPc = "returned"
    /\ NumAgents >= 2
    /\ 1 \in DOMAIN graph
    /\ graph[1] = <<1, 2, 2>>
    /\ Producers(ret.results) = <<1, 2>>

\* Depth-first preorder, stated on its own: the payloads made from the edges
\* es of a visited agent whose output is d, after the payloads out.
RECURSIVE Preorder(_, _, _)
Preorder(out, es, d) ==
    IF es = <<>> THEN out
    ELSE LET id == Head(es)
             a == AgentById(id)
             seen == {agents[Producer(out[i])] : i \in 1..Len(out)}
             r == Output(a, d)
             sub == IF id \in DOMAIN graph THEN graph[id] ELSE <<>>
         IN  IF id \in seen \/ a = 0
             THEN Preorder(out, Tail(es), d)
             ELSE Preorder(Preorder(Append(out, r), sub, r), Tail(es), d)

\* The results of a graph run in which nothing fails.
PreorderResults ==
    LET r == Output(1, InitialInput)
    IN  Preorder(<<r>>, IF agents[1] \in DOMAIN graph THEN graph[agents[1]]
                        ELSE <<>>, r)

IsPrefix(p, q) == Len(p) <= Len(q) /\ p = SubSeq(q, 1, Len(p))

\* C8: graph mode visits depth first, in preorder, from agents[0]: every
\* successor not yet visited is invoked in the order the graph lists it, with
\* the output of the current agent as its input, and is explored before the
\* next sibling edge; the diamond A->[B,C], B->[D], C->[D] gives [A, B, D, C].
C8_GraphPreorder ==
    (mode = "graph" /\ NumAgents > 0) =>
        /\ IsPrefix(results, PreorderResults)
        /\ \A i \in 1..Len(calls) :
              /\ i <= Len(PreorderResults)
              /\ calls[i] = <<Producer(PreorderResults[i]),
                              InputOf(PreorderResults[i])>>
        /\ runPc = "returned" => ret.results = PreorderResults
        /\ (runPc = "returned" /\ graph = DiamondGraph /\ NumAgents = 4) =>
              Producers(ret.results) = <<1, 2, 4, 3>>

C8_Witness ==
    /\ mode = "graph"
    /\ runPc = "returned"
    /\ graph = DiamondGraph
    /\ NumAgents = 4
    /\ Called = <<1, 2, 4, 3>>
    /\ calls[3][2] = Output(2, Output(1, InitialInput))

\* C9: a graph run terminates for every graph, cycles and self-loops
\* included, when the logic of every agent terminates: skipping what was
\* visited bounds the process calls by the number of agents.
C9_GraphTerminates ==
    /\ [](mode = "graph" => Len(calls) <= NumAgents)
    /\ (mode = "graph") ~> RunOver

\* A cycle through every agent, back to the entry.
C9_Witness ==
    /\ mode = "graph"
    /\ runPc = "returned"
    /\ NumAgents = 3
    /\ graph = BuildGraph(<< <<1, 2>>, <<2, 3>>, <<3, 1>> >>)
    /\ Len(calls) = 3

\* C10: a failure of an agent's logic in a graph run aborts the run: no agent
\* is invoked after the failing one (the branch stops, the siblings are not
\* attempted) and the caller gets no result record.
C10_GraphFailure ==
    mode = "graph" =>
        \A a \in Agents : callExc[a] =>
            /\ calls[Len(calls)][1] = a
            /\ ret \in {NoResult, Raised}
            /\ callPc[a] = "done" => (runPc = "raised" \/ awaiting = a)
            /\ RunOver => ret = Raised

\* The failing agent is not the entry, and a sibling listed after it was
\* never attempted.
C10_Witness ==
    /\ mode = "graph"
    /\ runPc = "raised"
    /\ ret = Raised
    /\ NumAgents = 3
    /\ 1 \in DOMAIN graph
    /\ graph[1] = <<2, 3>>
    /\ callExc[2]
    /\ callPc[3] = "none"

----------------------------------------------------------------------------
(* Agent.process called directly, any number of times *)

MaxDirect == 2
MaxCalls == 2
MaxClock == 2

\* Two agents that no strand runs: their callers call process themselves.
AgentInit ==
    /\ InitStrand("direct", MaxDirect, EmptyGraph)
    /\ runPc = "direct"
    /\ OwnCalls
    /\ InitSystem(StrandName)
    /\ InitNoMemory
    /\ clock = 0

\* await agent.process(input_data), by a caller that the loop runs; no call
\* of this agent is in progress.
DirectCall(a) ==
    /\ cur = 0
    /\ callPc[a] \in {"none", "done"}
    /\ Len(calls) < MaxCalls
    /\ ProcessEnter(a, InitialInput)
    /\ UNCHANGED <<strandVars, outerVars, runPc, awaiting, currentData, results,
                   processed, stack, gatherExc, ret>>

\* time.time() advances.
Tick ==
    /\ clock < MaxClock
    /\ clock' = clock + 1
    /\ UNCHANGED <<strandVars, agentVars, sysVars, memVars, msgVars, runPc, awaiting,
                   currentData, results, processed, stack, gatherExc, ret>>

AgentNext ==
    \/ \E a \in Agents : DirectCall(a)
    \/ \E a \in Agents : LogicSuspend(a)
    \/ \E a \in Agents : LogicResume(a)
    \/ \E a \in Agents : ProcessSucceed(a)
    \/ \E a \in Agents : ProcessFail(a)
    \/ \E a \in Agents : ProcessFinally(a)
    \/ Tick

AgentSpec == AgentInit /\ [][AgentNext]_vars

\* The process calls made on agent a.
CallsOf(a) == Cardinality({i \in 1..Len(calls) : calls[i][1] = a})

\* The process calls on agent a that are over and raised (exc) or returned.
ReturnsOf(a, exc) ==
    Cardinality({i \in 1..Len(returns) : returns[i] = <<a, exc>>})

\* Every process call that was made is over.
Quiescent == \A a \in Agents : callPc[a] \in {"none", "done"}

C11_Counts ==
    Quiescent =>
        \A a \in Agents :
            /\ metrics[a].total_executions = CallsOf(a)
            /\ metrics[a].successful_executions = ReturnsOf(a, FALSE)
            /\ metrics[a].failed_executions = ReturnsOf(a, TRUE)
            /\ metrics[a].total_executions =
                   metrics[a].successful_executions
                       + metrics[a].failed_executions

C11_Monotone ==
    \A a \in Agents :
        /\ metrics'[a].total_executions >= metrics[a].total_executions
        /\ metrics'[a].successful_executions
               >= metrics[a].successful_executions
        /\ metrics'[a].failed_executions >= metrics[a].failed_executions

\* C11: once the process calls made on an agent have all returned, its
\* total_executions is the number of calls, successful_executions the number
\* that returned, failed_executions the number that raised, and the total is
\* the sum of the two; no step makes a counter smaller.
C11_MetricsCount == [] C11_Counts /\ [][C11_Monotone]_vars

\* Agent 1 was called twice, one call raised and one returned, and every
\* call is over.
C11_Witness ==
    /\ Quiescent
    /\ ReturnsOf(1, TRUE) = 1
    /\ ReturnsOf(1, FALSE) = 1

\* The entries of the given level in the log of agent a.
LogCount(a, level) ==
    Cardinality({i \in 1..Len(log[a]) : log[a][i] = level})

\* The logic of the call of agent a ends in this step: it leaves the try
\* block, by its end or by the except block.
LogicEnds(a) == callPc[a] \in {"logic", "resumed"} /\ callPc'[a] = "finally"

\* What the step in which the logic of agent a ends does, by its outcome.
C12_Outcome(a) ==
    IF status'[a] = "error"
    THEN /\ callExc'[a]
         /\ log'[a] = Append(log[a], "error")
         /\ metrics'[a].failed_executions = metrics[a].failed_executions + 1
         /\ metrics'[a].successful_executions
                = metrics[a].successful_executions
         /\ metrics'[a].total_time = metrics[a].total_time
    ELSE /\ status'[a] = "completed"
         /\ ~callExc'[a]
         /\ log'[a] = Append(log[a], "info")
         /\ metrics'[a].successful_executions
                = metrics[a].successful_executions + 1
         /\ metrics'[a].failed_executions = metrics[a].failed_executions

\* Every other step leaves the log, the outcome and the two counters of the
\* call alone, and the logic is entered once per call.
C12_NoOtherWrite(a) ==
    /\ log'[a] = log[a]
    /\ metrics'[a].failed_executions = metrics[a].failed_executions
    /\ metrics'[a].successful_executions = metrics[a].successful_executions
    /\ metrics'[a].total_time = metrics[a].total_time
    /\ callPc[a] = "finally" => callExc'[a] = callExc[a]
    /\ callPc[a] = "finally" => callPc'[a] \in {"finally", "done"}

\* A call that is over raised to its caller exactly if its logic failed, and
\* the log holds one entry per outcome: an error for each failure and an info
\* for each success.
C12_Propagated ==
    \A a \in Agents :
        /\ LogCount(a, "error") = metrics[a].failed_executions
        /\ LogCount(a, "info") = metrics[a].successful_executions
        /\ Len(log[a]) = LogCount(a, "error") + LogCount(a, "info")
        /\ callPc[a] \in {"finally", "done"} =>
               (callExc[a] <=> log[a][Len(log[a])] = "error")
        /\ ReturnsOf(a, TRUE) <= LogCount(a, "error")
        /\ callPc[a] \in {"none", "done"} =>
               ReturnsOf(a, TRUE) = LogCount(a, "error")

\* C12: a failure of the logic is raised to the caller of process, with no
\* retry, after exactly one error entry in the log and failed_executions one
\* higher, successful_executions and total_time as they were; a success
\* writes exactly one info entry and raises successful_executions by one.
C12_FailureAccounting ==
    /\ [] C12_Propagated
    /\ [][\A a \in Agents :
            IF LogicEnds(a) THEN C12_Outcome(a) ELSE C12_NoOtherWrite(a)]_vars

\* A call of agent 1 raised to its caller after the clock had advanced, and
\* an earlier call of it had returned after the clock had advanced.
C12_Witness ==
    /\ callPc[1] = "done"
    /\ callExc[1]
    /\ clock > callStart[1]
    /\ metrics[1].total_time > 0
    /\ log[1] = <<"info", "error">>

----------------------------------------------------------------------------
(* MultiAgentSystem.execute_strand, request after request *)

SysAgents == 2
MaxRuns == 2

\* The strands a system is given: none of agents, a chain, and a strand whose
\* graph has a cycle and an edge to an id that no agent has.
SysStrands ==
    { <<0, EmptyGraph>>,
      <<SysAgents, BuildGraph(ChainEdges(SysAgents))>>,
      <<SysAgents, BuildGraph(<<<<1, 2>>, <<1, SysAgents + 1>>, <<2, 1>>>>)>> }

\* The mode strings and the strand names of a request.
RequestModes == Modes \cup {UnknownMode}
RequestNames == {StrandName, MissingName}

SysInit ==
    \E st \in SysStrands, m \in RequestModes, nm \in RequestNames :
        /\ InitStrand(m, st[1], st[2])
        /\ runPc = "idle"
        /\ OwnCalls
        /\ InitSystem(nm)
        /\ InitNoMemory
        /\ clock = 0

\* The next call of execute_strand, made once the run before it is over and
\* no process call of it is left: it has a frame of its own, and the agents
\* and the registry are as the run before left them.
NewRequest ==
    /\ runPc \in {"returned", "raised"}
    /\ cur = 0
    /\ \A a \in Agents : callPc[a] \in {"none", "done"}
    /\ runs + 1 < MaxRuns
    /\ \E m \in RequestModes, nm \in RequestNames :
        /\ mode' = m
        /\ reqName' = nm
    /\ runs' = runs + 1
    /\ failedBefore' = (failedBefore \/ runPc = "raised")
    /\ runPc' = "idle"
    /\ awaiting' = 0
    /\ currentData' = <<>>
    /\ results' = <<>>
    /\ processed' = {}
    /\ stack' = <<>>
    /\ gatherExc' = 0
    /\ ret' = NoResult
    /\ calls' = <<>>
    /\ returns' = <<>>
    /\ UNCHANGED <<agents, graph, callOwner, registry, strandOf, status,
                   metrics, log, logTime, callPc, callIn, callOut, callExc,
                   cur, callStart, memVars, msgVars, clock>>

SysNext ==
    \/ Next
    \/ ExecuteNotFound
    \/ NewRequest

SysSpec == SysInit /\ [][SysNext]_vars

\* What a request that runs no agent leaves as it is.
SystemState == <<registry, agents, graph, status, metrics, log, callPc,
                 agentMem, shortTerm, longTerm>>

C13_State ==
    reqName = MissingName =>
        /\ runPc # "raised"
        /\ calls = <<>>
        /\ runPc = "returned" => ret = ErrorValue("not found")

\* C13: execute_strand with a name that is not registered returns the error
\* value "not found", whatever the mode string, raises nothing, calls process
\* on no agent, and leaves the registry and the status, metrics, log and
\* memory of every agent as they were.
C13_NotFound ==
    /\ [] C13_State
    /\ [][reqName = MissingName => UNCHANGED SystemState]_vars

\* A request in a known mode for a name that is not registered has returned,
\* after a run that had called the agents.
C13_Witness ==
    /\ reqName = MissingName
    /\ mode = "sequential"
    /\ runPc = "returned"
    /\ runs = 1
    /\ NumAgents > 0
    /\ metrics[1].total_executions = 1

C14_State ==
    mode \notin Modes =>
        /\ runPc # "raised"
        /\ calls = <<>>
        /\ runPc = "returned" =>
               ret = IF reqName = StrandName THEN ErrorValue("unknown mode")
                     ELSE ErrorValue("not found")

\* C14: execute_strand with a registered name and a mode string that is none
\* of the three returns the error value "unknown mode", raises nothing, calls
\* process on no agent and changes nothing; when the name is not registered
\* either, the error value is "not found".
C14_UnknownMode ==
    /\ [] C14_State
    /\ [][mode \notin Modes => UNCHANGED SystemState]_vars

\* A request in an unknown mode for the registered strand has returned, after
\* a run that had called the agents.
C14_Witness ==
    /\ reqName = StrandName
    /\ mode = UnknownMode
    /\ runPc = "returned"
    /\ runs = 1
    /\ NumAgents > 0
    /\ metrics[1].failed_executions = 1

\* The results of a sequential run of n agents in which nothing fails.
RECURSIVE SeqChain(_)
SeqChain(n) ==
    IF n = 0 THEN <<>>
    ELSE LET p == SeqChain(n - 1)
         IN  Append(p, Output(n, IF n = 1 THEN InitialInput ELSE p[n - 1]))

\* What a request returns when it is the first the system gets.
NormalReturn ==
    IF reqName # StrandName THEN ErrorValue("not found")
    ELSE CASE mode = "sequential" ->
                ResultRecordFinal(SeqChain(NumAgents),
                                  IF NumAgents = 0 THEN InitialInput
                                  ELSE SeqChain(NumAgents)[NumAgents])
           [] mode = "parallel" ->
                ResultRecord([a \in Agents |-> Output(a, InitialInput)])
           [] mode = "graph" ->
                IF NumAgents = 0 THEN ErrorValue("No agents in strand")
                ELSE ResultRecord(PreorderResults)
           [] OTHER -> ErrorValue("unknown mode")

----------------------------------------------------------------------------
(* More on the runs of one strand *)

\* The agents with a process call that has begun and is not over.
InProgress == {a \in Agents : callPc[a] \notin {"none", "ready", "done"}}

C15_OneAtATime ==
    mode \in {"sequential", "graph"} =>
        /\ Cardinality({a \in Agents : status[a] = "processing"}) <= 1
        /\ Cardinality(InProgress) <= 1
        /\ Len(calls) <= Len(returns) + 1

\* While a call is in progress no other call begins, nothing is added to the
\* results and the run does not end.
C15_Blocked ==
    (mode \in {"sequential", "graph"} /\ InProgress # {}) =>
        /\ calls' = calls
        /\ results' = results
        /\ runPc' = runPc

\* C15: in sequential and in graph mode at most one agent is processing at
\* any time and no process call begins before the one begun before it is
\* over, so that nothing downstream of an agent that does not return runs.
C15_StrictOrder == [] C15_OneAtATime /\ [][C15_Blocked]_vars

\* The first of three agents of a sequential run is suspended in its logic.
C15_Witness ==
    /\ mode = "sequential"
    /\ NumAgents = 3
    /\ callPc[1] = "suspended"
    /\ cur = 0
    /\ calls = <<<<1, InitialInput>>>>

\* The outputs of the process calls of the run, in the order of the calls.
VisitOutputs == [i \in 1..Len(calls) |-> Output(calls[i][1], calls[i][2])]

\* The record of a run: the strand name, the outputs in the order the agents
\* were visited, and final_output in sequential mode only.
IsRunRecord ==
    /\ ret.kind = "result"
    /\ ret.strand
    /\ ret.results = VisitOutputs
    /\ ret.hasFinal <=> mode = "sequential"

\* C17 as it is stated: every run that returns, in each of the three modes
\* and for every strand, the empty one too, returns the record of the run.
C17_Original == (runPc = "returned" /\ mode \in Modes) => IsRunRecord

\* C17: every run that returns, in each of the three modes, returns a record
\* with the strand name, the outputs in visitation order and, in sequential
\* mode only, final_output, for every strand but one: graph mode on a strand
\* with no agents returns the error value "No agents in strand".
C17_RunRecord ==
    (runPc = "returned" /\ mode \in Modes) =>
        IF mode = "graph" /\ NumAgents = 0
        THEN ret = ErrorValue("No agents in strand")
        ELSE IsRunRecord

\* A graph run of three agents has returned their outputs in the order it
\* visited them, which is not the order of the list.
C17_Witness ==
    /\ runPc = "returned"
    /\ mode = "graph"
    /\ NumAgents = 3
    /\ Producers(ret.results) = <<1, 3, 2>>

\* C18 as it is stated: a sequential run that returns has a last result, and
\* final_output is that result, whatever the number of agents.
C18_Original ==
    (runPc = "returned" /\ mode = "sequential") =>
        /\ Len(ret.results) >= 1
        /\ ret.final = ret.results[Len(ret.results)]

\* C18: a sequential run of one agent or more that returns has final_output
\* equal to the last element of results, the output of the last agent; a
\* sequential run of no agents returns no results and the input it was given
\* as final_output.
C18_FinalOutput ==
    (runPc = "returned" /\ mode = "sequential") =>
        /\ ret.hasFinal
        /\ Len(ret.results) = NumAgents
        /\ IF NumAgents = 0
           THEN ret.final = InitialInput
           ELSE /\ ret.final = ret.results[NumAgents]
                /\ ret.final = Output(NumAgents, callIn[NumAgents])

\* A sequential run of three agents has returned.
C18_Witness ==
    /\ runPc = "returned"
    /\ mode = "sequential"
    /\ NumAgents = 3
    /\ ret.final = ret.results[3]
    /\ Producer(ret.final) = 3

----------------------------------------------------------------------------
(* AgentMemory, and the memory AgentStrand.__init__ gives its agents *)

MemAgents == 2
MaxStrands == 2
MaxStores == 2

\* The keys and the values that are stored.
Keys == {"k1", "k2"}
Values == {"v1", "v2"}

\* AgentMemory(): an empty short_term.
EmptyMap == [k \in {} |-> "v1"]

\* The memories that exist: memory m is shortTerm[m] and longTerm[m].
Memories == 1..Len(shortTerm)

\* Agent.__init__ for each agent object, with a memory of its own
\* (memory or AgentMemory()); no strand is constructed yet.
MemInit ==
    /\ InitStrand("memory", MemAgents, EmptyGraph)
    /\ runPc = "memory"
    /\ OwnCalls
    /\ InitSystem(StrandName)
    /\ agentMem = [a \in 1..MemAgents |-> a]
    /\ built = <<>>
    /\ shortTerm = [m \in 1..MemAgents |-> EmptyMap]
    /\ longTerm = [m \in 1..MemAgents |-> <<>>]
    /\ stores = <<>>
    /\ pending = [a \in 1..MemAgents |-> <<>>]
    /\ clock = 0

\* AgentStrand.__init__(name, members, shared_memory): given = 0 stands for
\* no shared_memory argument, and the strand makes a memory; every member is
\* made to refer to the memory of the strand.
NewStrand(members, given) ==
    /\ Len(built) < MaxStrands
    /\ LET fresh == given = 0
           mem == IF fresh THEN Len(shortTerm) + 1 ELSE given
       IN  /\ built' = Append(built, [members |-> members, memory |-> mem])
           /\ agentMem' = [a \in DOMAIN agentMem |->
                              IF a \in members THEN mem ELSE agentMem[a]]
           /\ shortTerm' = IF fresh THEN Append(shortTerm, EmptyMap)
                           ELSE shortTerm
           /\ longTerm' = IF fresh THEN Append(longTerm, <<>>) ELSE longTerm
    /\ UNCHANGED <<strandVars, agentVars, sysVars, msgVars, stores, pending, clock, runPc,
                   awaiting, currentData, results, processed, stack,
                   gatherExc, ret>>

\* self.short_term[key] = value
Put(map, key, value) ==
    [k \in DOMAIN map \cup {key} |-> IF k = key THEN value ELSE map[k]]

\* Mutant of LongTermAfter: a store that is not persistent is journalled too.
LongTermAlways(lt, key, value, persistent) ==
    Append(lt, [key |-> key, value |-> value, timestamp |-> clock])

\* AgentMemory.store: what long_term is after the call.
LongTermAfter(lt, key, value, persistent) ==
    IF persistent
    THEN Append(lt, [key |-> key, value |-> value, timestamp |-> clock])
    ELSE lt

\* self.memory.store(key, value, persistent), by agent a.
Store(a, key, value, persistent) ==
    /\ Len(stores) < MaxStores
    /\ LET m == agentMem[a]
       IN  /\ shortTerm' = [shortTerm EXCEPT ![m] = Put(@, key, value)]
           /\ longTerm' = [longTerm EXCEPT
                              ![m] = LongTermAfter(@, key, value, persistent)]
           /\ stores' = Append(stores, [memory |-> m, key |-> key,
                                        value |-> value,
                                        persistent |-> persistent])
    /\ UNCHANGED <<strandVars, agentVars, sysVars, msgVars, agentMem, built, pending, clock,
                   runPc, awaiting, currentData, results, processed, stack,
                   gatherExc, ret>>

\* AgentMemory.retrieve, by agent a: self.short_term.get(key).
Retrieve(a, key) ==
    LET map == shortTerm[agentMem[a]]
    IN  IF key \in DOMAIN map THEN map[key] ELSE "None"

\* The memories of the strands constructed so far (strand.shared_memory).
StrandMemories == {built[i].memory : i \in 1..Len(built)}

\* Strands are constructed over the agent objects, with a memory of their
\* own or with the memory of an earlier strand, and the agents store.
MemNext ==
    \/ \E members \in SUBSET (1..MemAgents), given \in {0} \cup StrandMemories :
           NewStrand(members, given)
    \/ \E a \in 1..MemAgents, key \in Keys, value \in Values,
          persistent \in BOOLEAN : Store(a, key, value, persistent)

MemSpec == MemInit /\ [][MemNext]_vars

\* The agents store, each in the memory it was made with, and time passes.
StoreNext ==
    \/ \E a \in 1..MemAgents, key \in Keys, value \in Values,
          persistent \in BOOLEAN : Store(a, key, value, persistent)
    \/ Tick

StoreSpec == MemInit /\ [][StoreNext]_vars

\* C19: after any sequence of strand constructions every member of every
\* strand refers to the memory of that strand, so that what one member
\* stores every other member of the strand retrieves, also when an agent
\* object was given to more than one strand.
C19_SharedMemory ==
    \A i \in 1..Len(built) :
        /\ \A a \in built[i].members : agentMem[a] = built[i].memory
        /\ \A a, b \in built[i].members, key \in Keys :
               Retrieve(a, key) = Retrieve(b, key)

\* Agent 1 was given to a second strand: it stores in the memory of that
\* strand, and agent 2, a member of the first strand with it, does not
\* retrieve what it stored.
C19_Divergence ==
    /\ Len(built) = 2
    /\ built[1].members = {1, 2}
    /\ built[2].members = {1}
    /\ agentMem[1] = built[2].memory
    /\ agentMem[2] = built[1].memory
    /\ Len(stores) = 1
    /\ stores[1].memory = agentMem[1]
    /\ Retrieve(1, "k1") = "v1"
    /\ Retrieve(2, "k1") = "None"

\* The store call made in this step, if one is made.
StoreMade == Len(stores') = Len(stores) + 1

C20_Store ==
    LET c == stores'[Len(stores')]
        m == c.memory
    IN  /\ shortTerm'[m][c.key] = c.value
        /\ DOMAIN shortTerm'[m] = DOMAIN shortTerm[m] \cup {c.key}
        /\ \A k \in DOMAIN shortTerm[m] \ {c.key} :
               shortTerm'[m][k] = shortTerm[m][k]
        /\ longTerm'[m] =
               IF c.persistent
               THEN Append(longTerm[m], [key |-> c.key, value |-> c.value,
                                         timestamp |-> clock])
               ELSE longTerm[m]
        /\ \A o \in Memories \ {m} :
               shortTerm'[o] = shortTerm[o] /\ longTerm'[o] = longTerm[o]

\* C20: store(key, value, persistent) sets short_term[key] to value and
\* leaves every other key as it was; when persistent it appends exactly one
\* entry of key, value and the time of the call at the end of long_term, and
\* otherwise leaves long_term as it was; no step removes, reorders or alters
\* an entry that long_term holds.
C20_StoreFrame ==
    [][/\ StoreMade => C20_Store
       /\ ~StoreMade => (shortTerm' = shortTerm /\ longTerm' = longTerm)
       /\ \A m \in Memories : IsPrefix(longTerm[m], longTerm'[m])]_vars

\* A memory holds two entries of one key, stored at different times with
\* different values, and short_term holds the later value.
C20_Witness ==
    \E m \in Memories :
        /\ Len(longTerm[m]) = 2
        /\ longTerm[m][1].key = "k1"
        /\ longTerm[m][2].key = "k1"
        /\ longTerm[m][1].value = "v1"
        /\ longTerm[m][2].value = "v2"
        /\ longTerm[m][1].timestamp < longTerm[m][2].timestamp
        /\ shortTerm[m] = [k \in {"k1"} |-> "v2"]

----------------------------------------------------------------------------
(* AgentMemory.retrieve and search_history *)

\* Mutant of search_history: the whole of long_term is returned.
search_history_all(lt, key) == lt

\* AgentMemory.search_history on a memory whose long_term is lt:
\* [item for item in self.long_term if item["key"] == key]
search_history(lt, key) == SelectSeq(lt, LAMBDA e : e.key = key)

\* AgentMemory.retrieve on a memory whose short_term is map.
retrieve(map, key) == IF key \in DOMAIN map THEN map[key] ELSE "None"

\* What a persistent store of c.key and c.value into memory c.memory does to
\* what retrieve and search_history return.
C21_Persistent(c) ==
    LET m == c.memory
        before == search_history(longTerm[m], c.key)
        after == search_history(longTerm'[m], c.key)
    IN  /\ retrieve(shortTerm'[m], c.key) = c.value
        /\ Len(after) = Len(before) + 1
        /\ SubSeq(after, 1, Len(before)) = before
        /\ after[Len(after)].key = c.key
        /\ after[Len(after)].value = c.value
        /\ \A i \in 1..Len(before) :
               before[i].timestamp <= after[Len(after)].timestamp

\* C21: after store(key, value, persistent=true), retrieve(key) returns value
\* and search_history(key) returns what it returned before and one more
\* entry, the last, of that key and value and with a timestamp not earlier
\* than that of any entry it returned before; search_history returns no
\* entry of another key.
C21_StoreThenRead ==
    /\ [][(StoreMade /\ stores'[Len(stores')].persistent)
             => C21_Persistent(stores'[Len(stores')])]_vars
    /\ [](\A m \in Memories, key \in Keys :
             \A i \in 1..Len(search_history(longTerm[m], key)) :
                 search_history(longTerm[m], key)[i].key = key)

\* A memory holds an entry of k1 and a later entry of k2, and the history of
\* k2 is the later entry alone.
C21_Witness ==
    \E m \in Memories :
        /\ Len(longTerm[m]) = 2
        /\ longTerm[m][1].key = "k1"
        /\ longTerm[m][2].key = "k2"
        /\ longTerm[m][1].timestamp < longTerm[m][2].timestamp
        /\ search_history(longTerm[m], "k2") = <<longTerm[m][2]>>
        /\ retrieve(shortTerm[m], "k2") = longTerm[m][2].value

----------------------------------------------------------------------------
(* AgentStrand.get_all_logs and MultiAgentSystem.get_system_logs *)

LogAgents == 2
MaxLogs == 3

\* The agent objects in the order of their ids, and in the opposite order.
Ascending(n) == [i \in 1..n |-> i]
Descending(n) == [i \in 1..n |-> n + 1 - i]

\* The systems whose logs are read, as the add_strand calls that made them,
\* <<name, agents>> each: no strand; one strand of every agent; two strands of
\* every agent, listed in opposite orders; two strands of one agent each.
LogSystems ==
    { <<>>,
      << <<"s1", Ascending(LogAgents)>> >>,
      << <<"s1", Descending(LogAgents)>>, <<"s2", Ascending(LogAgents)>> >>,
      << <<"s2", <<LogAgents>>>>, <<"s1", <<1>>>> >> }

\* Agent.__init__ for each agent object, and MultiAgentSystem.__init__ with
\* the add_strand calls of one of the systems.
LogInit ==
    /\ InitStrand("logs", LogAgents, EmptyGraph)
    /\ runPc = "logs"
    /\ OwnCalls
    /\ \E sys \in LogSystems :
        /\ registry = [i \in 1..Len(sys) |-> sys[i][1]]
        /\ strandOf = [nm \in {sys[i][1] : i \in 1..Len(sys)} |->
                          LET i == CHOOSE j \in 1..Len(sys) : sys[j][1] = nm
                          IN  sys[i][2]]
    /\ reqName = StrandName
    /\ runs = 0
    /\ failedBefore = FALSE
    /\ ops = <<>>
    /\ InitNoMemory
    /\ clock = 0

\* The entries all the logs hold.
TotalLogs ==
    LET RECURSIVE Sum(_)
        Sum(n) == IF n = 0 THEN 0 ELSE Len(log[n]) + Sum(n - 1)
    IN  Sum(NumAgents)

\* Agent.log, called on agent a.
AgentLog(a, level) ==
    /\ TotalLogs < MaxLogs
    /\ LogAppend(a, level)
    /\ UNCHANGED <<strandVars, outerVars, status, metrics, callPc, callIn,
                   callOut, callExc, cur, calls, callStart, returns, runPc,
                   awaiting, currentData, results, processed, stack,
                   gatherExc, ret>>

LogNext ==
    \/ \E a \in Agents, level \in {"info", "error"} : AgentLog(a, level)
    \/ Tick

LogSpec == LogInit /\ [][LogNext]_vars

\* agent.execution_log: entry i of agent a, its message standing for i.
LogEntry(a, i) ==
    [timestamp |-> logTime[a][i], agent |-> a, level |-> log[a][i],
     message |-> i]
ExecutionLog(a) == [i \in 1..Len(log[a]) |-> LogEntry(a, i)]

\* Mutant of InsertByTime: the entry goes before the entries of its time.
RECURSIVE InsertByTimeUnstable(_, _)
InsertByTimeUnstable(sorted, e) ==
    IF sorted = <<>> THEN <<e>>
    ELSE LET last == sorted[Len(sorted)]
         IN  IF last.timestamp < e.timestamp THEN Append(sorted, e)
             ELSE Append(InsertByTimeUnstable(
                             SubSeq(sorted, 1, Len(sorted) - 1), e), last)

\* sorted(..., key=lambda x: x["timestamp"]) is stable: an entry is placed
\* after the entries before it that are not later than it.
RECURSIVE InsertByTime(_, _)
InsertByTime(sorted, e) ==
    IF sorted = <<>> THEN <<e>>
    ELSE LET last == sorted[Len(sorted)]
         IN  IF last.timestamp <= e.timestamp THEN Append(sorted, e)
             ELSE Append(InsertByTime(SubSeq(sorted, 1, Len(sorted) - 1), e),
                         last)

RECURSIVE SortedByTime(_)
SortedByTime(q) ==
    IF q = <<>> THEN <<>>
    ELSE InsertByTime(SortedByTime(SubSeq(q, 1, Len(q) - 1)), q[Len(q)])

\* all_logs.extend(...) over a list: the lists of f, one after the other.
RECURSIVE Extend(_, _)
Extend(f, n) == IF n = 0 THEN <<>> ELSE Extend(f, n - 1) \o f[n]

\* AgentStrand.get_all_logs of a strand whose agents are ags.
get_all_logs(ags) ==
    SortedByTime(Extend([i \in 1..Len(ags) |-> ExecutionLog(ags[i])],
                        Len(ags)))

\* MultiAgentSystem.get_system_logs.
get_system_logs ==
    SortedByTime(Extend([i \in 1..Len(registry) |->
                            get_all_logs(strandOf[registry[i]])],
                        Len(registry)))

\* The entries in the order of source iteration: the strands in the order of
\* the registry, the agents of a strand in list order, the entries of an
\* agent in the order they were appended.
SourceOrder ==
    Extend([i \in 1..Len(registry) |->
               LET ags == strandOf[registry[i]]
               IN  Extend([j \in 1..Len(ags) |-> ExecutionLog(ags[j])],
                          Len(ags))],
           Len(registry))

\* The entries of q whose timestamp is t, in the order q has them.
AtTime(q, t) == SelectSeq(q, LAMBDA e : e.timestamp = t)

\* C22: get_system_logs returns the log entries of all agents of all
\* registered strands, ascending by timestamp, and entries of one timestamp
\* in the order of source iteration: strand insertion order, then agent list
\* order, then append order within an agent.
C22_SystemLogs ==
    LET out == get_system_logs
    IN  /\ Len(out) = Len(SourceOrder)
        /\ \A i, j \in 1..Len(out) :
               i < j => out[i].timestamp <= out[j].timestamp
        /\ \A t \in 0..MaxClock : AtTime(out, t) = AtTime(SourceOrder, t)

\* The sort moved an entry, and two entries of one timestamp from different
\* strands are next to each other.
C22_Witness ==
    LET out == get_system_logs
    IN  /\ Len(registry) = 2
        /\ Len(out) = 3
        /\ out # SourceOrder
        /\ out[1].timestamp = out[2].timestamp
        /\ out[1].agent # out[2].agent
        /\ out[3].timestamp > out[2].timestamp

----------------------------------------------------------------------------
(* Agent.get_metrics *)

\* A quotient n / d as the fraction it is; d = 0 is ZeroDivisionError.
Div(n, d) == [num |-> n, den |-> d]

\* The literal 0.
Zero == [num |-> 0, den |-> 1]

\* Mutant of get_metrics: the quotients are taken without the test.
get_metrics_unguarded(a) ==
    LET m == metrics[a]
    IN  [agent_id |-> a,
         total_executions |-> m.total_executions,
         successful_executions |-> m.successful_executions,
         failed_executions |-> m.failed_executions,
         success_rate |->
             Div(m.successful_executions * 100, m.total_executions),
         average_execution_time |-> Div(m.total_time, m.total_executions)]

\* Agent.get_metrics of agent a. It has no await: no step of a process call
\* happens inside it.
get_metrics(a) ==
    LET m == metrics[a]
    IN  [agent_id |-> a,
         total_executions |-> m.total_executions,
         successful_executions |-> m.successful_executions,
         failed_executions |-> m.failed_executions,
         success_rate |->
             IF m.total_executions > 0
             THEN Div(m.successful_executions * 100, m.total_executions)
             ELSE Zero,
         average_execution_time |->
             IF m.total_executions > 0
             THEN Div(m.total_time, m.total_executions)
             ELSE Zero]

\* C23: whenever a caller can run get_metrics (no process call holds the
\* loop), it divides by nothing that is zero; with no execution counted the
\* success rate and the average execution time are 0; with executions
\* counted the success rate is successful / total * 100, it lies between 0
\* and 100, and it is 100 exactly when no call of the agent has failed.
C23_Metrics ==
    cur = 0 =>
        \A a \in Agents :
            LET g == get_metrics(a)
                rate == g.success_rate
                avg == g.average_execution_time
            IN  /\ rate.den # 0
                /\ avg.den # 0
                /\ g.total_executions = 0 => rate.num = 0 /\ avg.num = 0
                /\ g.total_executions > 0 =>
                       /\ rate.num * g.total_executions
                              = g.successful_executions * 100 * rate.den
                       /\ 0 <= rate.num
                       /\ rate.num <= 100 * rate.den
                       /\ (rate.num = 100 * rate.den)
                              <=> (ReturnsOf(a, TRUE) = 0)

\* One agent has a success and a failure behind it, its rate is 50, and
\* another agent has not been executed.
C23_Witness ==
    /\ cur = 0
    /\ \E a, b \in Agents :
        /\ get_metrics(a).total_executions = 2
        /\ ReturnsOf(a, TRUE) = 1
        /\ get_metrics(a).success_rate = Div(100, 2)
        /\ get_metrics(b).total_executions = 0
        /\ get_metrics(b).success_rate = Zero

----------------------------------------------------------------------------
(* The registry of strands: add_strand, the delete endpoint, execute_strand
   and get_system_metrics *)

RegAgents == 2
MaxOps == 3

\* The names strands are given, and the agent lists of the strand objects.
RegNames == {"s1", "s2"}
RegLists == {<<>>, <<1>>, Ascending(RegAgents), Descending(RegAgents)}

\* MultiAgentSystem.__init__: no strand is registered.
RegInit ==
    /\ InitStrand("registry", RegAgents, EmptyGraph)
    /\ runPc = "registry"
    /\ OwnCalls
    /\ registry = <<>>
    /\ strandOf = [nm \in {} |-> <<>>]
    /\ ops = <<>>
    /\ reqName = StrandName
    /\ runs = 0
    /\ failedBefore = FALSE
    /\ InitNoMemory
    /\ clock = 0

\* One call in the history: the operation, the name it was given, the agents
\* of the strand it was given, what it reported and the agents it ran.
Op(op, nm, ags, result, ran) ==
    [op |-> op, name |-> nm, agents |-> ags, result |-> result, ran |-> ran]

\* What the steps of the registry leave alone.
RegFrame ==
    UNCHANGED <<strandVars, memVars, inbox, clock, reqName, runs,
                failedBefore, callPc, callIn, callOut, callExc, cur, calls,
                callStart, returns, runPc, awaiting, currentData, results,
                processed, stack, gatherExc, ret>>

\* Mutant of AddStrand: the strands are kept in a list.
AddStrandAppend(nm, ags) ==
    /\ Len(ops) < MaxOps
    /\ registry' = Append(registry, nm)
    /\ strandOf' = [x \in DOMAIN strandOf \cup {nm} |->
                       IF x = nm THEN ags ELSE strandOf[x]]
    /\ ops' = Append(ops, Op("add", nm, ags, "none", <<>>))
    /\ UNCHANGED <<status, metrics, log, logTime>>
    /\ RegFrame

\* MultiAgentSystem.add_strand with a strand of the name nm and the agents
\* ags: self.strands[strand.name] = strand. A dict keeps a key that is
\* assigned again where it is.
AddStrand(nm, ags) ==
    /\ Len(ops) < MaxOps
    /\ registry' = IF nm \in DOMAIN strandOf THEN registry
                   ELSE Append(registry, nm)
    /\ strandOf' = [x \in DOMAIN strandOf \cup {nm} |->
                       IF x = nm THEN ags ELSE strandOf[x]]
    /\ ops' = Append(ops, Op("add", nm, ags, "none", <<>>))
    /\ UNCHANGED <<status, metrics, log, logTime>>
    /\ RegFrame

\* Mutant of DeleteStrand: the name is popped, registered or not.
DeleteStrandPop(nm) ==
    /\ Len(ops) < MaxOps
    /\ registry' = SelectSeq(registry, LAMBDA x : x # nm)
    /\ strandOf' = [x \in DOMAIN strandOf \ {nm} |-> strandOf[x]]
    /\ ops' = Append(ops, Op("delete", nm, <<>>, "success", <<>>))
    /\ UNCHANGED <<status, metrics, log, logTime>>
    /\ RegFrame

\* The delete endpoint: 404 for a name that is not in strands, or else
\* del multi_agent_system.strands[strand_name] and success.
DeleteStrand(nm) ==
    /\ Len(ops) < MaxOps
    /\ IF nm \notin DOMAIN strandOf
       THEN /\ ops' = Append(ops, Op("delete", nm, <<>>, "not found", <<>>))
            /\ UNCHANGED <<registry, strandOf>>
       ELSE /\ registry' = SelectSeq(registry, LAMBDA x : x # nm)
            /\ strandOf' = [x \in DOMAIN strandOf \ {nm} |-> strandOf[x]]
            /\ ops' = Append(ops, Op("delete", nm, <<>>, "success", <<>>))
    /\ UNCHANGED <<status, metrics, log, logTime>>
    /\ RegFrame

\* The agents a sequential run of ags calls when the logic of agent f
\* raises: the run ends with the first call that raises.
RanOf(ags, f) ==
    IF \E i \in 1..Len(ags) : ags[i] = f
    THEN SubSeq(ags, 1, CHOOSE i \in 1..Len(ags) : ags[i] = f)
    ELSE ags

\* AgentStrand.execute_sequential of the strand nm with the agents ags, from
\* the call to its end, where the logic of agent f raises (of none, for
\* f = 0): each agent that is called has its process call counted and logged
\* and its status reset.
RunSequential(nm, ags, f) ==
    LET ran == RanOf(ags, f)
        did == Range(ran)
    IN  /\ ops' = Append(ops, Op("execute", nm, <<>>,
                                 IF f \in did THEN "raised" ELSE "result",
                                 ran))
        /\ metrics' =
               [a \in DOMAIN metrics |->
                   IF a \notin did THEN metrics[a]
                   ELSE [metrics[a] EXCEPT
                            !.total_executions = @ + 1,
                            !.successful_executions =
                                IF a = f THEN @ ELSE @ + 1,
                            !.failed_executions =
                                IF a = f THEN @ + 1 ELSE @]]
        /\ log' = [a \in DOMAIN log |->
                      IF a \notin did THEN log[a]
                      ELSE log[a] \o
                               <<"info", IF a = f THEN "error" ELSE "info">>]
        /\ logTime' = [a \in DOMAIN logTime |->
                          IF a \notin did THEN logTime[a]
                          ELSE logTime[a] \o <<clock, clock>>]
        /\ status' = [a \in DOMAIN status |->
                         IF a \in did THEN "idle" ELSE status[a]]

\* MultiAgentSystem.execute_strand in sequential mode: the error value for a
\* name that is not in strands, or else the run of the strand that the name
\* has on entry.
ExecuteStrand(nm, f) ==
    /\ Len(ops) < MaxOps
    /\ IF nm \notin DOMAIN strandOf
       THEN /\ ops' = Append(ops, Op("execute", nm, <<>>, "not found", <<>>))
            /\ UNCHANGED <<status, metrics, log, logTime>>
       ELSE RunSequential(nm, strandOf[nm], f)
    /\ UNCHANGED <<registry, strandOf>>
    /\ RegFrame

RegNext ==
    \/ \E nm \in RegNames, ags \in RegLists : AddStrand(nm, ags)
    \/ \E nm \in RegNames : DeleteStrand(nm)
    \/ \E nm \in RegNames, f \in 0..RegAgents : ExecuteStrand(nm, f)

RegSpec == RegInit /\ [][RegNext]_vars

\* AgentStrand.get_all_metrics of a strand whose agents are ags.
get_all_metrics(ags) == [j \in 1..Len(ags) |-> get_metrics(ags[j])]

\* sum(len(s.agents) for s in self.strands.values())
RECURSIVE SumAgents(_)
SumAgents(n) ==
    IF n = 0 THEN 0 ELSE SumAgents(n - 1) + Len(strandOf[registry[n]])

\* Mutant of get_system_metrics: an agent is counted and listed once.
get_system_metrics_once ==
    LET all == Extend([i \in 1..Len(registry) |->
                          get_all_metrics(strandOf[registry[i]])],
                      Len(registry))
        first == {i \in 1..Len(all) : \A j \in 1..(i - 1) : all[j] # all[i]}
    IN  [total_strands |-> Len(registry),
         total_agents |-> Cardinality(first),
         agent_metrics |->
             SelectSeq(all, LAMBDA e :
                 \E i \in first : all[i] = e)]

\* MultiAgentSystem.get_system_metrics.
get_system_metrics ==
    [total_strands |-> Len(registry),
     total_agents |-> SumAgents(Len(registry)),
     agent_metrics |->
         Extend([i \in 1..Len(registry) |->
                    get_all_metrics(strandOf[registry[i]])],
                Len(registry))]

\* From the history h of calls alone: the calls that added nm and were not
\* followed by a delete of nm.
AddsOf(h, nm) ==
    {i \in 1..Len(h) :
        /\ h[i].op = "add"
        /\ h[i].name = nm
        /\ \A j \in (i + 1)..Len(h) :
               ~(h[j].op = "delete" /\ h[j].name = nm)}

Least(S) == CHOOSE i \in S : \A j \in S : i <= j
Greatest(S) == CHOOSE i \in S : \A j \in S : i >= j

\* The names that are registered after h, in the order in which they came
\* in, and the agents of the strand each name stands for: those of the
\* latest add_strand of the name.
NamesAfter(h) == {nm \in RegNames : AddsOf(h, nm) # {}}
NameOrderAfter(h) ==
    [k \in 1..Cardinality(NamesAfter(h)) |->
        CHOOSE nm \in NamesAfter(h) :
            Cardinality({x \in NamesAfter(h) :
                Least(AddsOf(h, x)) < Least(AddsOf(h, nm))}) = k - 1]
AgentsAfter(h, nm) == h[Greatest(AddsOf(h, nm))].agents

\* The history before call i.
Before(i) == SubSeq(ops, 1, i - 1)

\* C24: add_strand with a name that is registered replaces the strand of the
\* name: the number of registered strands does not grow, the other names
\* keep their strands and their places, and a later execute_strand of the
\* name runs agents of the latest strand added under it only, in its order.
C24_Replace ==
    /\ \A i \in 1..Len(ops) :
           (ops[i].op = "add" /\ ops[i].name \in NamesAfter(Before(i))) =>
               LET h == Before(i)
                   g == SubSeq(ops, 1, i)
               IN  /\ NamesAfter(g) = NamesAfter(h)
                   /\ NameOrderAfter(g) = NameOrderAfter(h)
                   /\ AgentsAfter(g, ops[i].name) = ops[i].agents
                   /\ \A nm \in NamesAfter(h) \ {ops[i].name} :
                          AgentsAfter(g, nm) = AgentsAfter(h, nm)
    /\ \A i \in 1..Len(ops) :
           (ops[i].op = "execute" /\ ops[i].name \in NamesAfter(Before(i))) =>
               /\ ops[i].result # "not found"
               /\ IsPrefix(ops[i].ran, AgentsAfter(Before(i), ops[i].name))
               /\ ops[i].result = "result" =>
                      ops[i].ran = AgentsAfter(Before(i), ops[i].name)
    /\ registry = NameOrderAfter(ops)
    /\ \A nm \in NamesAfter(ops) : strandOf[nm] = AgentsAfter(ops, nm)

\* A strand of two agents was replaced by a strand of one of them, and the
\* run of the name called the agent of the new strand alone.
C24_Witness ==
    /\ Len(ops) = 3
    /\ ops[1] = Op("add", "s1", Descending(RegAgents), "none", <<>>)
    /\ ops[2] = Op("add", "s1", <<1>>, "none", <<>>)
    /\ ops[3] = Op("execute", "s1", <<>>, "result", <<1>>)
    /\ Len(registry) = 1
    /\ metrics[1].total_executions = 1
    /\ metrics[RegAgents].total_executions = 0

\* C25: a delete of a registered name reports success and removes that name
\* and nothing else; a delete of a name that is not registered reports
\* not-found and leaves the registry as it is; execute_strand of a name that
\* is not registered, a deleted one included, reports not-found.
C25_DeleteStep ==
    (Len(ops') = Len(ops) + 1 /\ ops'[Len(ops')].op = "delete") =>
        LET nm == ops'[Len(ops')].name
        IN  IF nm \in Range(registry)
            THEN /\ ops'[Len(ops')].result = "success"
                 /\ registry' = SelectSeq(registry, LAMBDA x : x # nm)
                 /\ DOMAIN strandOf' = DOMAIN strandOf \ {nm}
                 /\ \A x \in DOMAIN strandOf' : strandOf'[x] = strandOf[x]
            ELSE /\ ops'[Len(ops')].result = "not found"
                 /\ registry' = registry
                 /\ strandOf' = strandOf

C25_Delete ==
    /\ [][C25_DeleteStep]_vars
    /\ [](\A i \in 1..Len(ops) :
             ops[i].op = "execute" =>
                 ((ops[i].result = "not found")
                      <=> (ops[i].name \notin NamesAfter(Before(i)))))
    /\ [](\A i \in 1..Len(ops) :
             ops[i].op = "delete" =>
                 ((ops[i].result = "success")
                      <=> (ops[i].name \in NamesAfter(Before(i)))))

\* Of two registered strands the first was deleted; the other is as it was.
C25_Witness ==
    /\ Len(ops) = 3
    /\ ops[1].op = "add" /\ ops[1].name = "s1"
    /\ ops[2].op = "add" /\ ops[2].name = "s2"
    /\ ops[2].agents = Ascending(RegAgents)
    /\ ops[3] = Op("delete", "s1", <<>>, "success", <<>>)
    /\ registry = <<"s2">>
    /\ strandOf["s2"] = Ascending(RegAgents)

\* A deleted name is executed: not found.
C25_WitnessGone ==
    /\ Len(ops) = 3
    /\ ops[1].op = "add" /\ ops[1].name = "s1"
    /\ ops[2] = Op("delete", "s1", <<>>, "success", <<>>)
    /\ ops[3] = Op("execute", "s1", <<>>, "not found", <<>>)

\* C26: after any calls of add_strand, delete and execute_strand,
\* get_system_metrics reports as total_strands the number of registered
\* names, as total_agents the sum of the agent counts of their strands, and
\* as agent_metrics the metrics of each agent of each registered strand, one
\* entry each, in strand insertion order and then agent list order.
C26_SystemMetrics ==
    LET g == get_system_metrics
        names == NameOrderAfter(ops)
        ids == Extend([k \in 1..Len(names) |-> AgentsAfter(ops, names[k])],
                      Len(names))
    IN  /\ g.total_strands = Cardinality(NamesAfter(ops))
        /\ g.total_agents = Len(ids)
        /\ Len(g.agent_metrics) = Len(ids)
        /\ \A i \in 1..Len(ids) : g.agent_metrics[i] = get_metrics(ids[i])

\* Two strands that share an agent, one of them run: the agent is listed for
\* each strand.
C26_Witness ==
    /\ Len(ops) = 3
    /\ ops[3].op = "execute" /\ ops[3].result = "result"
    /\ registry = <<"s2", "s1">>
    /\ strandOf["s2"] = Descending(RegAgents)
    /\ strandOf["s1"] = <<1>>
    /\ get_system_metrics.total_agents = RegAgents + 1
    /\ get_system_metrics.agent_metrics[RegAgents].agent_id = 1
    /\ get_system_metrics.agent_metrics[RegAgents + 1].agent_id = 1
    /\ get_system_metrics.agent_metrics[RegAgents].total_executions = 1

----------------------------------------------------------------------------
(* Agent.send_message and Agent.receive_message, next to a run *)

MsgAgents == 2
MaxMsgs == 2

\* The strands that are run: none of no agent, a chain, and one whose graph
\* has an edge to an agent that is missing and an edge back.
MsgStrands ==
    { <<0, EmptyGraph>>,
      <<MsgAgents, BuildGraph(ChainEdges(MsgAgents))>>,
      <<MsgAgents, BuildGraph(<<<<1, 2>>, <<1, MsgAgents + 1>>, <<2, 1>>>>)>> }

\* One strand and one request for it, in a mode or in none.
MsgInit ==
    /\ \E st \in MsgStrands, m \in RequestModes :
           InitStrand(m, st[1], st[2])
    /\ runPc = "idle"
    /\ OwnCalls
    /\ InitSystem(StrandName)
    /\ InitNoMemory
    /\ clock = 0

\* Message(sender=..., receiver=..., content=...): the id is fresh.
Message(sender, receiver) ==
    [id |-> Len(ops) + 1, sender |-> sender, receiver |-> receiver,
     timestamp |-> clock]

MsgFrame ==
    UNCHANGED <<strandVars, sysVars, memVars, clock, status, metrics, callPc,
                callIn, callOut, callExc, cur, calls, callStart, returns,
                runPc, awaiting, currentData, results, processed, stack,
                gatherExc, ret>>

\* Mutant of SendMessage: the message is put into the inbox of its receiver.
SendMessageDelivers(a, receiver) ==
    /\ cur = 0
    /\ Len(ops) < MaxMsgs
    /\ ops' = Append(ops, [op |-> "send", agent |-> a,
                           msg |-> Message(a, receiver)])
    /\ LogAppend(a, "info")
    /\ inbox' = [inbox EXCEPT ![receiver] = Append(@, Message(a, receiver))]
    /\ MsgFrame

\* Agent.send_message of agent a, awaited by a caller that the loop runs: it
\* has no await of its own. The message is built, logged and returned.
SendMessage(a, receiver) ==
    /\ cur = 0
    /\ Len(ops) < MaxMsgs
    /\ ops' = Append(ops, [op |-> "send", agent |-> a,
                           msg |-> Message(a, receiver)])
    /\ LogAppend(a, "info")
    /\ UNCHANGED inbox
    /\ MsgFrame

\* The messages a caller has to hand on to agent a: those send_message
\* returned for a, and one of its own making.
Incoming(a) ==
    {ops[i].msg : i \in {j \in 1..Len(ops) :
                            ops[j].op = "send" /\ ops[j].msg.receiver = a}}
        \cup {Message(0, a)}

\* Agent.receive_message of agent a: the put on the unbounded queue does not
\* wait, and the entry is logged.
ReceiveMessage(a, msg) ==
    /\ cur = 0
    /\ Len(ops) < MaxMsgs
    /\ ops' = Append(ops, [op |-> "receive", agent |-> a, msg |-> msg])
    /\ inbox' = [inbox EXCEPT ![a] = Append(@, msg)]
    /\ LogAppend(a, "info")
    /\ MsgFrame

\* The receiver of a message is a name and no more: the agent after a in
\* the list, or the first one, stands for it.
Neighbour(a) == (a % NumAgents) + 1

MsgNext ==
    \/ Next
    \/ \E a \in Agents : SendMessage(a, Neighbour(a))
    \/ \E a \in Agents : \E msg \in Incoming(a) : ReceiveMessage(a, msg)

MsgSpec == MsgInit /\ [][MsgNext]_vars

\* The latest call of the history was made in this step, and it is op.
OpMade(op) == Len(ops') = Len(ops) + 1 /\ ops'[Len(ops')].op = op

\* The messages agent a received, in the order of the calls.
Received(a) ==
    LET mine == SelectSeq(ops, LAMBDA o : o.op = "receive" /\ o.agent = a)
    IN  [i \in 1..Len(mine) |-> mine[i].msg]

\* C27: no step of a run in any mode and no send_message puts anything into
\* an inbox; send_message builds a message whose sender is the calling agent
\* and appends one log entry, and leaves status and metrics alone; an inbox
\* changes by receive_message only, which puts its message at the end: every
\* inbox holds the messages its agent received, in the order of the calls.
C27_StepInbox ==
    /\ inbox' # inbox =>
           /\ OpMade("receive")
           /\ LET o == ops'[Len(ops')]
              IN  inbox' = [inbox EXCEPT ![o.agent] = Append(@, o.msg)]
    /\ OpMade("send") =>
           LET o == ops'[Len(ops')]
           IN  /\ inbox' = inbox
               /\ o.msg.sender = o.agent
               /\ log' = [log EXCEPT ![o.agent] = Append(@, "info")]
               /\ status' = status
               /\ metrics' = metrics

C27_Inbox ==
    /\ [][C27_StepInbox]_vars
    /\ [](\A a \in Agents : inbox[a] = Received(a))

\* A parallel run is over; while it went on, agent 1 sent a message to
\* agent 2, which a caller then handed to agent 2: inbox 2 holds it, and no
\* other inbox holds anything.
C27_Witness ==
    /\ runPc = "returned"
    /\ mode = "parallel"
    /\ NumAgents >= 2
    /\ Len(ops) = 2
    /\ ops[1].op = "send" /\ ops[1].agent = 1
    /\ ops[2].op = "receive" /\ ops[2].agent = 2
    /\ inbox[2] = <<ops[1].msg>>
    /\ inbox[1] = <<>>
    /\ Len(log[1]) = 2
    /\ Len(log[2]) = 2

----------------------------------------------------------------------------
(* A parallel run of agents whose logic stores in the memory they share *)

ParAgents == 2

\* The keys the logic stores under, before and after its sleep.
LastInput == "last_input"
LastOutput == "last_output"

\* AgentStrand.__init__: the agents share the memory of the strand; one
\* request for a parallel run.
ParMemInit ==
    /\ InitStrand("parallel", ParAgents, BuildGraph(ChainEdges(ParAgents)))
    /\ runPc = "idle"
    /\ OwnCalls
    /\ InitSystem(StrandName)
    /\ agentMem = [a \in 1..ParAgents |-> 1]
    /\ built = <<[members |-> 1..ParAgents, memory |-> 1]>>
    /\ shortTerm = <<EmptyMap>>
    /\ longTerm = <<<<>>>>
    /\ stores = <<>>
    /\ pending = [a \in 1..ParAgents |-> <<>>]
    /\ clock = 0

\* The store call of agent a that is under way or was the last to end.
\* Half: its first statement is done and its second is not.
Half(a) == pending[a] # <<>> /\ pending[a][1].half

\* The logic of agent a has made the store of the part it is in: before the
\* sleep (logic) or after it (resumed).
StoredIn(a) ==
    /\ pending[a] # <<>>
    /\ ~pending[a][1].half
    /\ pending[a][1].phase = callPc[a]

ParMemFrame ==
    UNCHANGED <<strandVars, agentVars, sysVars, msgVars, agentMem, built,
                clock, runPc, awaiting, currentData, results, processed,
                stack, gatherExc, ret>>

\* Mutant of StoreShort: the store gives the loop away after its first
\* statement.
StoreShortYield(a, persistent) ==
    /\ cur = a
    /\ callPc[a] \in {"logic", "resumed"}
    /\ ~Half(a)
    /\ ~StoredIn(a)
    /\ LET key == IF callPc[a] = "logic" THEN LastInput ELSE LastOutput
           value == IF callPc[a] = "logic" THEN callIn[a]
                    ELSE Output(a, callIn[a])
       IN  /\ shortTerm' = [shortTerm EXCEPT
                               ![agentMem[a]] = Put(@, key, value)]
           /\ pending' = [pending EXCEPT
                             ![a] = <<[phase |-> callPc[a], half |-> TRUE,
                                       key |-> key, value |-> value,
                                       persistent |-> persistent]>>]
    /\ cur' = 0
    /\ UNCHANGED <<strandVars, sysVars, msgVars, agentMem, built, clock,
                   status, metrics, log, logTime, callPc, callIn, callOut,
                   callExc, calls, callStart, returns, longTerm, stores,
                   runPc, awaiting, currentData, results, processed, stack,
                   gatherExc, ret>>

\* AgentMemory.store called by the logic of agent a, first statement:
\* self.short_term[key] = value. The logic stores its input before the sleep
\* and its result after it. The statement has no await: the loop stays with
\* the call.
StoreShort(a, persistent) ==
    /\ cur = a
    /\ callPc[a] \in {"logic", "resumed"}
    /\ ~Half(a)
    /\ ~StoredIn(a)
    /\ LET key == IF callPc[a] = "logic" THEN LastInput ELSE LastOutput
           value == IF callPc[a] = "logic" THEN callIn[a]
                    ELSE Output(a, callIn[a])
       IN  /\ shortTerm' = [shortTerm EXCEPT
                               ![agentMem[a]] = Put(@, key, value)]
           /\ pending' = [pending EXCEPT
                             ![a] = <<[phase |-> callPc[a], half |-> TRUE,
                                       key |-> key, value |-> value,
                                       persistent |-> persistent]>>]
    /\ UNCHANGED <<longTerm, stores>>
    /\ ParMemFrame

\* AgentMemory.store, second statement: the entry is appended to long_term
\* when the store is persistent, and the call is over. It is the next
\* statement of the coroutine that made the first.
StoreLong(a) ==
    /\ cur \in {0, a}
    /\ Half(a)
    /\ LET c == pending[a][1]
           m == agentMem[a]
       IN  /\ longTerm' = [longTerm EXCEPT
                              ![m] = LongTermAfter(@, c.key, c.value,
                                                   c.persistent)]
           /\ stores' = Append(stores, [memory |-> m, key |-> c.key,
                                        value |-> c.value,
                                        persistent |-> c.persistent])
           /\ pending' = [pending EXCEPT ![a] = <<[c EXCEPT !.half = FALSE]>>]
    /\ cur' = a
    /\ UNCHANGED <<strandVars, sysVars, msgVars, agentMem, built, clock,
                   status, metrics, log, logTime, callPc, callIn, callOut,
                   callExc, calls, callStart, returns, shortTerm, runPc,
                   awaiting, currentData, results, processed, stack,
                   gatherExc, ret>>

\* Agent._execute_logic: the sleep comes after the first store and the return
\* after the second; the logic of an agent may raise where it is not in a
\* store.
ParMemNext ==
    \/ ParStart
    \/ \E a \in Agents : TaskStart(a)
    \/ GatherReturn
    \/ GatherRaise
    \/ \E a \in Agents, persistent \in BOOLEAN : StoreShort(a, persistent)
    \/ \E a \in Agents : StoreLong(a)
    \/ \E a \in Agents : StoredIn(a) /\ LogicSuspend(a)
    \/ \E a \in Agents : LogicResume(a)
    \/ \E a \in Agents :
           callPc[a] = "resumed" /\ StoredIn(a) /\ ProcessSucceed(a)
    \/ \E a \in Agents : ~Half(a) /\ ProcessFail(a)
    \/ \E a \in Agents : ProcessFinally(a)

ParMemSpec == ParMemInit /\ [][ParMemNext]_vars

\* The entries that the persistent stores made on memory m put into the
\* journal, in the order in which the stores ended.
Journalled(m) ==
    LET mine == SelectSeq(stores, LAMBDA c : c.memory = m /\ c.persistent)
    IN  [i \in 1..Len(mine) |-> [key |-> mine[i].key, value |-> mine[i].value]]

\* The value of the store to key on memory m that was the last to end.
LastStored(m, key) ==
    LET mine == SelectSeq(stores, LAMBDA c : c.memory = m /\ c.key = key)
    IN  IF mine = <<>> THEN "None" ELSE <<mine[Len(mine)].value>>

\* C28: in a parallel run the loop is given away inside the logic of an
\* agent only, never inside a store on the shared memory: a store that is
\* under way holds the loop. Whenever the loop is free, in every interleaving,
\* the journal holds one entry for each persistent store that was made, in
\* their order and with their key and value, and every short-term key holds
\* the value of the store to that key that was made last.
C28_AtomicStore ==
    /\ \A a \in Agents : Half(a) => cur = a
    /\ cur = 0 =>
        \A m \in Memories :
            /\ [i \in 1..Len(longTerm[m]) |->
                   [key |-> longTerm[m][i].key,
                    value |-> longTerm[m][i].value]] = Journalled(m)
            /\ \A key \in {LastInput, LastOutput} :
                   LastStored(m, key) =
                       IF key \in DOMAIN shortTerm[m]
                       THEN <<shortTerm[m][key]>>
                       ELSE "None"

\* The run is over; agent 1 was started first and ended its second store
\* last, after agent 2: last_output is what agent 1 stored, and the journal
\* has the persistent stores, three of the four.
C28_Witness ==
    /\ runPc = "returned"
    /\ Len(stores) = 2 * NumAgents
    /\ stores[Len(stores)].value = Output(1, InitialInput)
    /\ stores[Len(stores) - 1].value = Output(2, InitialInput)
    /\ shortTerm[1][LastOutput] = Output(1, InitialInput)
    /\ Len(longTerm[1]) = Len(stores) - 1
    /\ ~stores[1].persistent

----------------------------------------------------------------------------
(* What a run leaves behind *)

\* The process call of agent a is in flight: it was started and is not over.
InFlight(a) == callPc[a] \in {"logic", "suspended", "resumed", "finally"}

\* C29: when a run in any mode has returned or has raised to its caller, no
\* process call that the run started is in flight and every agent has the
\* status idle.
C29_Quiesced ==
    RunOver =>
        \A a \in Agents : ~InFlight(a) /\ status[a] = "idle"

\* A parallel run has raised the exception of one agent while the call of
\* another agent, started by the run, is asleep with the status processing.
C29_Divergence ==
    /\ runPc = "raised"
    /\ mode = "parallel"
    /\ \E a, b \in Agents :
        /\ callPc[a] = "done" /\ callExc[a]
        /\ callPc[b] = "suspended"
        /\ status[b] = "processing"

\* Outside parallel mode the run is the only caller and awaits each call: when
\* it is over nothing is in flight and every agent is idle.
AwaitedRunsQuiesce ==
    (RunOver /\ mode # "parallel") =>
        \A a \in Agents : ~InFlight(a) /\ status[a] = "idle"

----------------------------------------------------------------------------
(* Process calls on one agent object that overlap *)

MaxOverlap == 2

\* One agent object; every call record is a call of process on it.
OverlapInit ==
    /\ InitStrand("overlap", MaxOverlap, EmptyGraph)
    /\ runPc = "overlap"
    /\ callOwner = [c \in 1..MaxOverlap |-> 1]
    /\ InitSystem(StrandName)
    /\ InitNoMemory
    /\ clock = 0

\* await agent.process(input_data) by one more caller, whatever the calls
\* that are in flight: call record c is free.
OverlapCall(c) ==
    /\ \A b \in 1..(c - 1) : callPc[b] # "none"
    /\ DirectCall(c)

OverlapNext ==
    \/ \E c \in Agents : OverlapCall(c)
    \/ \E c \in Agents : LogicSuspend(c)
    \/ \E c \in Agents : LogicResume(c)
    \/ \E c \in Agents : ProcessSucceed(c)
    \/ \E c \in Agents : ProcessFail(c)
    \/ \E c \in Agents : ProcessFinally(c)
    \/ Tick

OverlapSpec == OverlapInit /\ [][OverlapNext]_vars

\* C30: when process calls on one agent overlap, the agent has the status
\* processing as long as one of the calls is in flight (seen whenever the
\* loop is free), and once all of them are over total_executions has grown
\* by one for each.
C30_Overlap ==
    /\ (cur = 0 /\ \E c \in Agents : InFlight(c)) => status[1] = "processing"
    /\ Quiescent => metrics[1].total_executions = Len(calls)

\* Two calls overlapped; the first is over and has left the status idle while
\* the second is asleep.
C30_Divergence ==
    /\ cur = 0
    /\ callPc[1] = "done"
    /\ callPc[2] = "suspended"
    /\ callStart[2] <= clock
    /\ Len(returns) = 1
    /\ status[1] = "idle"

\* The counts are right also for calls that overlap: each call adds one to
\* total_executions in its finally block.
OverlapCounts ==
    Quiescent =>
        /\ metrics[1].total_executions = Len(calls)
        /\ metrics[1].successful_executions + metrics[1].failed_executions
               = Len(calls)

----------------------------------------------------------------------------
(* The results of a parallel run, and graph runs next to sequential runs *)

\* The agents whose process calls are over, in the order in which they ended.
Finished == [i \in 1..Len(returns) |-> returns[i][1]]

\* C31: a parallel run in which no agent failed returns, at every position i
\* of results, the output of agents[i] for the initial input, whatever the
\* order in which the agents ended.
C31_ParallelOrder ==
    (mode = "parallel" /\ runPc = "returned") =>
        /\ DOMAIN ret.results = 1..NumAgents
        /\ \A i \in 1..NumAgents :
               ret.results[i] = Output(agents[i], InitialInput)

\* The agents ended in the opposite of their list order.
C31_Witness ==
    /\ mode = "parallel"
    /\ runPc = "returned"
    /\ NumAgents >= 2
    /\ Finished = [i \in 1..NumAgents |-> NumAgents + 1 - i]
    /\ Producer(ret.results[1]) = 1

----------------------------------------------------------------------------
(* Graph runs over graphs that name ids of no agent *)

SkipAgents == 2
SkipEdges == 2

\* The add_communication calls a strand of n agents is given: at most
\* SkipEdges edges between the ids 1..n+1, of which n+1 matches no agent, as
\* source and as target.
SkipEdgeSeqs(n) ==
    UNION {[1..k -> (1..(n + 1)) \X (1..(n + 1))] : k \in 0..SkipEdges}

\* One strand and one request for a graph run of it.
SkipInit ==
    /\ \E n \in 0..SkipAgents :
           \E es \in SkipEdgeSeqs(n) : InitStrand("graph", n, BuildGraph(es))
    /\ runPc = "idle"
    /\ OwnCalls
    /\ InitSystem(StrandName)
    /\ InitNoMemory
    /\ clock = 0

SkipNext ==
    \/ GraphEmpty
    \/ GraphStart
    \/ GraphFirstDone
    \/ GraphNoEdges
    \/ GraphLoopEnd
    \/ GraphSkipProcessed
    \/ GraphSkipMissing
    \/ GraphInvoke
    \/ GraphCollect
    \/ GraphRaise
    \/ GraphReturn
    \/ \E a \in Agents : LogicSuspend(a)
    \/ \E a \in Agents : LogicResume(a)
    \/ \E a \in Agents : ProcessSucceed(a)
    \/ \E a \in Agents : ProcessFail(a)
    \/ \E a \in Agents : ProcessFinally(a)

SkipSpec == SkipInit /\ [][SkipNext]_vars

\* The agents that an edge of the graph leads to from an agent of S.
Successors(S) ==
    {t \in Agents :
        \E f \in S :
            /\ agents[f] \in DOMAIN graph
            /\ agents[t] \in Range(graph[agents[f]])}

\* The agents that are reachable from agents[0] through edges between
\* agents of the strand.
RECURSIVE ReachFrom(_)
ReachFrom(S) ==
    IF Successors(S) \subseteq S THEN S ELSE ReachFrom(S \cup Successors(S))
Reachable == IF NumAgents = 0 THEN {} ELSE ReachFrom({1})

\* The ids that match an agent of the strand.
AgentIds == {agents[a] : a \in Agents}

\* C32: in a graph run, a successor id that matches no agent is skipped
\* without error: the run raises only when the logic of an agent raised, the
\* id is never marked as processed, has no call of process_next and so no
\* edge of its own followed, and no result; and an agent that is not
\* reachable from agents[0] through edges between agents of the strand is
\* never invoked: its status, metrics and log stay as they were.
C32_SkipMissing ==
    /\ runPc = "raised" => \E a \in Agents : callExc[a]
    /\ processed \subseteq AgentIds
    /\ \A i \in 1..Len(stack) : stack[i].agent \in AgentIds
    /\ \A i \in 1..Len(results) : Producer(results[i]) \in Reachable
    /\ \A i \in 1..Len(calls) : calls[i][1] \in Reachable
    /\ \A a \in Agents \ Reachable :
           /\ callPc[a] = "none"
           /\ status[a] = "idle"
           /\ metrics[a] = ZeroMetrics
           /\ log[a] = <<>>

\* The only way to agent 2 is through an id of no agent: the run returned the
\* result of agent 1 alone, and agent 2 is as it was.
C32_Witness ==
    /\ runPc = "returned"
    /\ NumAgents = 2
    /\ graph = BuildGraph(<< <<1, 3>>, <<3, 2>> >>)
    /\ ret.kind = "result"
    /\ Producers(ret.results) = <<1>>
    /\ callPc[2] = "none"
    /\ metrics[2] = ZeroMetrics

----------------------------------------------------------------------------
(* Graph mode and sequential mode on the chain *)

\* What the agent at position i of a chain hands on: the initial input as
\* the agents 1..i made it, one after the other.
RECURSIVE ChainPayload(_)
ChainPayload(i) ==
    IF i = 0 THEN InitialInput ELSE Output(agents[i], ChainPayload(i - 1))

\* The strand is not empty and its graph is the chain of its agents.
OnChain == NumAgents >= 1 /\ graph = BuildGraph(ChainEdges(NumAgents))

\* What a run on the chain shows, in whatever mode it is made: call i is
\* made on agents[i] with what agents[i-1] handed on; a run that returns has
\* called every agent and returns what each handed on; a run that raises does
\* so for the call it made last, the only one that failed.
ChainRun ==
    /\ \A i \in 1..Len(calls) : calls[i] = <<i, ChainPayload(i - 1)>>
    /\ Len(calls) <= NumAgents
    /\ runPc = "returned" =>
           /\ Len(calls) = NumAgents
           /\ \A a \in Agents : ~callExc[a]
           /\ ret.kind = "result"
           /\ ret.results = [i \in 1..NumAgents |-> ChainPayload(i)]
    /\ runPc = "raised" =>
           /\ Len(calls) >= 1
           /\ callExc[Len(calls)]
           /\ \A j \in 1..(Len(calls) - 1) : ~callExc[j]
    /\ \A a \in Agents :
           (callExc[a] /\ callPc[a] = "done") =>
               a = Len(calls) /\ runPc # "returned"

\* C33: on a strand that is not empty, with distinct agent ids and the chain
\* agents[i] -> agents[i+1] as its graph, a graph run and a sequential run
\* show the same: the same agents are invoked in the same order with the same
\* inputs, the same results are returned, and the run fails at the same
\* agent when one fails. Both are the run ChainRun describes, which does not
\* depend on the mode.
C33_ChainSameAsSequential ==
    (OnChain /\ mode \in {"sequential", "graph"}) => ChainRun

\* A graph run on the chain of three agents returned the three results.
C33_Witness ==
    /\ mode = "graph"
    /\ OnChain
    /\ NumAgents = 3
    /\ runPc = "returned"
    /\ Called = <<1, 2, 3>>
    /\ ret.results = <<ChainPayload(1), ChainPayload(2), ChainPayload(3)>>

\* The two other cases of the comparison are met as well: a sequential run on
\* the chain of three agents that returned, and a graph run on it that failed
\* at the second agent.
ChainSequentialMet ==
    /\ mode = "sequential" /\ OnChain /\ NumAgents = 3 /\ runPc = "returned"
ChainGraphFailureMet ==
    /\ mode = "graph" /\ OnChain /\ NumAgents = 3 /\ runPc = "raised"
    /\ Len(calls) = 2

====
